---- MODULE Spec2Model ----
(***************************************************************************)
(* LoCoPilot agent runtime: LoCoPilotBuiltInAgent.invoke, the agentic loop *)
(* UnifiedAgent.run, and the provider's sendChatRequest /                  *)
(* _doSendChatRequest that feeds the loop's event stream.                  *)
(*                                                                         *)
(* Strings are sequences of symbols.  The completion marker                *)
(* '[TASK_COMPLETE]' is the two-symbol sequence <<"[T", "C]">>, so that a  *)
(* chunk boundary can fall inside it; " " is a whitespace character and    *)
(* every other symbol is a visible character (or word).                    *)
(***************************************************************************)
EXTENDS Integers, Sequences, FiniteSets, TLC

\* ------------------------------------------------------------------ bounds
MaxIterArg == 3       \* largest in-range maxIterations argument tried
MaxEvents == 4        \* text events, tool_use events and tool results other than
                      \* plain text that the environment produces in one run at most
MaxLines == 4         \* lines of tool-call events one response stream carries at most
\* events one response stream carries at most
MaxParts == MaxEvents \div 2
\* the transport answers at most this many requests of a run
MaxResponses == MaxIterArg

\* ------------------------------------------------------- program constants
REPEATED_TOOL_CALL_THRESHOLD == 3
REPEATED_TOOL_CALL_WINDOW == 6
DEFAULT_MAX_ITERATIONS == 25
MaxIterationsCeiling == 100
MaxIterationsFloor == 1
NoCompleteLimit == 2

TASK_COMPLETE_SIGNAL == <<"[T", "C]">>

Min(a, b) == IF a < b THEN a ELSE b
Max(a, b) == IF a > b THEN a ELSE b

\* ------------------------------------------------------------ string model
IsSpace(c) == c = " "

\* String.prototype.includes
Includes(s, m) ==
  \E i \in 1..(Len(s) - Len(m) + 1) : SubSeq(s, i, i + Len(m) - 1) = m

\* String.prototype.slice(n)
Slice(s, n) == IF n >= Len(s) THEN <<>> ELSE SubSeq(s, n + 1, Len(s))

\* number of leading whitespace characters of s
RECURSIVE LeadingSpaces(_)
LeadingSpaces(s) ==
  IF s = <<>> \/ ~IsSpace(Head(s)) THEN 0 ELSE 1 + LeadingSpaces(Tail(s))

StartsWith(s, m) == Len(s) >= Len(m) /\ SubSeq(s, 1, Len(m)) = m

\* s.replace(/\s*\[TASK_COMPLETE\]\s*/g, '')
RECURSIVE StripSignal(_)
StripSignal(s) ==
  IF s = <<>> THEN <<>>
  ELSE LET w == LeadingSpaces(s)
           afterWs == Slice(s, w)
       IN IF StartsWith(afterWs, TASK_COMPLETE_SIGNAL)
          THEN LET rest == Slice(afterWs, Len(TASK_COMPLETE_SIGNAL))
               IN StripSignal(Slice(rest, LeadingSpaces(rest)))
          ELSE <<Head(s)>> \o StripSignal(Tail(s))

RECURSIVE TrimEnd(_)
TrimEnd(s) ==
  IF s = <<>> \/ ~IsSpace(s[Len(s)]) THEN s ELSE TrimEnd(SubSeq(s, 1, Len(s) - 1))

\* String.prototype.trim
Trim(s) == TrimEnd(Slice(s, LeadingSpaces(s)))

\* the text shown while streaming (run, line 121)
DisplaySoFar(text) == Trim(StripSignal(text))

\* the text shown at stream end (run, lines 164-166)
DisplayText(text) ==
  IF Includes(text, TASK_COMPLETE_SIGNAL) THEN Trim(StripSignal(text)) ELSE text

\* ------------------------------------------------------------- data model
TextPart(v) == [type |-> "text", value |-> v]
ToolUsePart(n, id, p) == [type |-> "tool_use", name |-> n, toolCallId |-> id, parameters |-> p]

\* chunks of text a provider delivers
TextChunks == { <<"Done.">>, <<" ", "[T", "C]">> }
\* a chunk of white space, as a model emits before or between words
SpaceChunks == { <<" ">> }

\* parameters objects: null, and {path: "."}
NullParams == "null"
DotPath == "{\"path\":\".\"}"
\* tool calls a model issues: <<name, parameters>>
ToolUseChoices ==
  { <<"listDirectory", DotPath>>, <<"readFile", NullParams>> }

\* JSON.stringify(tc.parameters || {})
ParamsKey(p) == IF p = NullParams THEN "{}" ELSE p

\* `${tc.name}:${paramsKey}`
ToolKey(tc) == <<tc.name, ParamsKey(tc.parameters)>>

\* what a tool returns: a list of content items
TextItem == [kind |-> "text", mimeType |-> "", value |-> "out"]
ImageItem == [kind |-> "data", mimeType |-> "image/png", value |-> "png"]
OtherItem == [kind |-> "data", mimeType |-> "application/pdf", value |-> "pdf"]
ToolContents == { <<>>, <<TextItem>>, <<ImageItem>>, <<OtherItem>> }

IsImageMime(m) == m \in {"image/png"}

\* errors an adapter can throw; mentionsCancel is what /canceled|cancellation/i
\* finds in the message, cause is what actually happened
AdapterErrors ==
  { [msg |-> "Unsupported provider", mentionsCancel |-> FALSE, cause |-> "provider"],
    [msg |-> "Invalid or missing API key", mentionsCancel |-> FALSE, cause |-> "status"],
    [msg |-> "Invalid request for Google. Subscription canceled", mentionsCancel |-> TRUE,
     cause |-> "status"],
    [msg |-> "Canceled", mentionsCancel |-> TRUE, cause |-> "cancellation"] }
StreamErrors ==
  { [msg |-> "socket hang up", mentionsCancel |-> FALSE, cause |-> "transport"] }
NoError == [msg |-> "", mentionsCancel |-> FALSE, cause |-> "none"]
CanceledMessage == [msg |-> "Request was canceled. You can start a new request anytime.",
                    mentionsCancel |-> TRUE, cause |-> "cancellation"]

_isCanceledError(e) == e.mentionsCancel

\* constructor argument: omitted, or a number
MaxIterationsArgs ==
  { [given |-> FALSE, value |-> 0] } \cup
  { [given |-> TRUE, value |-> n] : n \in (0..MaxIterArg) \cup {MaxIterationsCeiling + 1} }

\* UnifiedAgent.constructor: Math.min(100, Math.max(1, maxIterations))
Constructor(arg) ==
  LET maxIterations == IF arg.given THEN arg.value ELSE DEFAULT_MAX_ITERATIONS
  IN Min(MaxIterationsCeiling, Max(MaxIterationsFloor, maxIterations))

InitialMessages ==
  << [role |-> "system", content |-> <<TextPart(<<"system prompt">>)>>],
     [role |-> "user", content |-> <<TextPart(<<"list files">>)>>] >>

NudgeMessage ==
  [role |-> "user", content |-> <<TextPart(<<"nudge">>)>>]

\* --------------------------------------------- history compaction: data model
AUTO_SUMMARIZE_THRESHOLD == 90    \* 0.9, in percent
RECENT_HISTORY_FRACTION == 10     \* 0.1, in percent
DefaultMaxInputTokens == 128000   \* modelMetadata?.maxInputTokens ?? 128000
CharsPerTokenEstimate == 4        \* Math.ceil(text.length / 4)

MaxHistory == 11      \* longest history the caller passes
MaxChunks == 3        \* content deltas one response of a local model carries at most

\* Math.ceil(a / b) for a >= 0, b > 0
Ceil(a, b) == (a + b - 1) \div b

\* the metadata of the selected model: none registered, or its input limit and
\* the number of characters its tokenizer puts in one token
NoMetadata == [known |-> FALSE, maxInputTokens |-> 0, charsPerToken |-> 1]
ModelMetadatas ==
  { NoMetadata,
    [known |-> TRUE, maxInputTokens |-> 40, charsPerToken |-> 1],
    [known |-> TRUE, maxInputTokens |-> 10, charsPerToken |-> 2] }

\* modelMetadata?.maxInputTokens ?? 128000
MaxInputTokensOf(meta) == IF meta.known THEN meta.maxInputTokens ELSE DefaultMaxInputTokens

SummaryTag == <<"[Earlier conversation summary]">>

\* entry number i of a conversation: the request's message and the response's
\* markdown content
HistoryEntry(i) ==
  [turn |-> i, message |-> <<"w", "h", "y", "?">> , response |-> <<"s", "o", ".">>]
Histories == { [i \in 1..n |-> HistoryEntry(i)] : n \in 0..MaxHistory }

\* what the summarization stream delivers, chunk by chunk
SummaryStreams == { <<>>, <<<<" ">>>>, <<<<" ", "gist">>, <<" ">>>> }

RECURSIVE Join(_)
Join(chunks) == IF chunks = <<>> THEN <<>> ELSE Head(chunks) \o Join(Tail(chunks))

\* buildMessages: the system prompt, a user message and an assistant message per
\* history entry, and the current request
RECURSIVE HistoryMessages(_)
HistoryMessages(h) ==
  IF h = <<>> THEN <<>>
  ELSE << [role |-> "user", content |-> <<TextPart(Head(h).message)>>],
          [role |-> "assistant", content |-> <<TextPart(Head(h).response)>>] >>
       \o HistoryMessages(Tail(h))

buildMessages(h) ==
  << [role |-> "system",
      content |-> <<TextPart(<<"b", "e", " ", "b", "r", "i", "e", "f">>)>>] >>
  \o HistoryMessages(h)
  \o << [role |-> "user",
         content |-> <<TextPart(<<"a", "n", "d", " ", "s", "o", "?">>)>>] >>

\* msg.content.map(p => p.type === 'text' ? p.value : '').join('')
RECURSIVE TextOf(_)
TextOf(content) ==
  IF content = <<>> THEN <<>>
  ELSE (IF Head(content).type = "text" THEN Head(content).value ELSE <<>>)
       \o TextOf(Tail(content))

\* languageModelsService.computeTokenLength, when it succeeds
computeTokenLength(meta, msg) == Ceil(Len(TextOf(msg.content)), meta.charsPerToken)

\* the catch block of computeTotalTokenCount: the loop adds the character
\* estimate of every message to total
RECURSIVE FallbackLoop(_, _)
FallbackLoop(t, msgs) ==
  IF msgs = <<>> THEN t
  ELSE FallbackLoop(t + Ceil(Len(TextOf(Head(msgs).content)), CharsPerTokenEstimate),
                    Tail(msgs))

\* mutant: the threshold has to be exceeded
ShouldSummarizeStrict(totalTokens, maxInputTokens, h) ==
  100 * totalTokens > AUTO_SUMMARIZE_THRESHOLD * maxInputTokens /\ Len(h) > 1

\* totalTokens >= AUTO_SUMMARIZE_THRESHOLD * maxInputTokens && history.length > 1
ShouldSummarize(totalTokens, maxInputTokens, h) ==
  100 * totalTokens >= AUTO_SUMMARIZE_THRESHOLD * maxInputTokens /\ Len(h) > 1

\* mutant: the fraction is rounded down
KeepCountFloor(h) == Max(1, (Len(h) * RECENT_HISTORY_FRACTION) \div 100)

\* Math.max(1, Math.ceil(history.length * RECENT_HISTORY_FRACTION))
KeepCount(h) == Max(1, Ceil(Len(h) * RECENT_HISTORY_FRACTION, 100))

\* mutant: the entries are taken from the start of the history
RecentFirst(h, keepCount) == SubSeq(h, 1, Min(keepCount, Len(h)))

\* history.slice(-keepCount)
Recent(h, keepCount) == SubSeq(h, Max(1, Len(h) - keepCount + 1), Len(h))

\* history.slice(0, history.length - keepCount)
OldEntries(h, keepCount) == SubSeq(h, 1, Len(h) - keepCount)

\* the synthetic entry: the first old entry's request with the tag as message
SummaryEntry(firstRequest, summaryText) ==
  [turn |-> firstRequest.turn, message |-> SummaryTag, response |-> summaryText]

\* getHistoryWithSummarizationIfNeeded, once summarizeHistoryEntries has returned
CompactedHistory(h, summaryText, cancelled) ==
  LET keepCount == KeepCount(h)
      recent == Recent(h, keepCount)
      oldEntries == OldEntries(h, keepCount)
  IN IF summaryText = <<>> \/ cancelled      \* !summaryText || token.isCancellationRequested
     THEN h
     ELSE <<SummaryEntry(oldEntries[1], summaryText)>> \o recent


\* the invocations of run in flight on the one UnifiedAgent the agent constructs
RunIds == {1, 2}

\* an invocation that was not made yet
NotCalled ==
  [pc |-> "notCalled", script |-> <<>>, iterationCount |-> 0,
   consecutiveNoCompleteCount |-> 0, hasEverEmitted |-> FALSE,
   conversationMessages |-> <<>>, recentToolKeys |-> <<>>, toolCalls |-> <<>>,
   toolIdx |-> 0, toolResults |-> <<>>, requests |-> 0, invoked |-> <<>>,
   outcome |-> "none", notes |-> {}, overlapped |-> FALSE,
   userSelectedTools |-> {}, allTools |-> {}, catalogs |-> <<>>, savedAtCall |-> 0]

\* the ids of the tools a registry holds
ToolIds == {"listDirectory", "readFile"}

\* the services as the agent's constructor leaves them: the built-in tools are
\* registered (part_002:135), getMaxIterationsPerRequest has persisted the default
ServicesAtStart ==
  [tools |-> ToolIds, stored |-> DEFAULT_MAX_ITERATIONS, lastSaved |-> 0]


\* ------------------------------------------------------------------ state
VARIABLES
  maxIterationsArg,            \* the constructor's maxIterations argument
  MAX_ITERATIONS,              \* UnifiedAgent.MAX_ITERATIONS
  token,                       \* token.isCancellationRequested
  cancelPoint,                 \* when cancellation was requested: none, early (before any
                               \* chunk of the first stream was consumed), late
  invokePc,                    \* LoCoPilotBuiltInAgent.invoke: idle, counting, summarizing,
                               \* awaitRun, resolved, rejected
  pc,                          \* UnifiedAgent.run: idle, loopTop, streaming, awaitResult, tools, resolved, rejected
  iterationCount,
  consecutiveNoCompleteCount,
  hasEverEmitted,
  conversationMessages,
  recentToolKeys,
  fullText,
  toolCalls,
  lastEmittedDisplayLength,
  toolIdx,                     \* position of the for-of loop over toolCalls
  toolResults,
  imagePartsForVision,
  provPc,                      \* _doSendChatRequest: none, requesting, listening, settled
  streamBuf,                   \* AsyncIterableSource: emitted, not yet consumed
  streamState,                 \* AsyncIterableSource: open, resolved, rejected
  streamError,                 \* what stream.reject was called with
  resultError,                 \* what response.result rejects with
  resultState,                 \* response.result: pending, resolved, rejected
  resolveCount,                \* calls of stream.resolve() for the current request
  rejectCount,                 \* calls of stream.reject() for the current request
  emitted,                     \* stream.emitOne calls for the current request
  requests,                    \* sendChatRequest calls of this run
  sentLength,                  \* conversationMessages.length at the last sendChatRequest
  invoked,                     \* invokeTool calls of this run, in order
  spent,                       \* events the environment has produced, of MaxEvents
  iterLog,                     \* one entry per iteration whose response was received
  outcome,                     \* by which exit the loop was left
  notes,                       \* user-visible notes passed to progress
  shown,                       \* markdownContent emitted in the current iteration
  cancelObserved,              \* the run has read isCancellationRequested = true
  adapter,                     \* model.provider of the adapter called, or none
  adapterPc,                   \* the adapter call: off, requesting, open (listenStream), ended
  buffer,                      \* onData: the line whose end has not arrived yet
  accumulatedToolCalls,        \* _callOpenAI: index -> {id, name, args}
  pendingToolUse,              \* _callAnthropic
  inputJsonAccum,              \* _callAnthropic
  arrived,                     \* the complete lines onData has processed, in order
  toolUseOut,                  \* the tool_use events passed to stream.emitOne
  outbound,                    \* the HTTP requests of one adapter call: body.tools, statusCode
  accumulatedContent,          \* _callLocalModel, _callOllamaModel, _callLocalhostModel
  history,                     \* invoke: the caller's history
  modelMetadata,               \* invoke: the selected model's metadata
  historyToUse,                \* invoke
  counted,                     \* computeTotalTokenCount: messages counted by the provider
  total,                       \* computeTotalTokenCount: total
  summary,                     \* summarizeHistoryEntries: summary
  runs,                        \* invocation of run -> its locals and what it did
  services                     \* toolsService: the registered tools; storageService: the value
                               \* stored for maxIterationsPerRequest; the last value saved

agentVars == <<maxIterationsArg, MAX_ITERATIONS, token, cancelPoint, invokePc, pc, iterationCount,
               consecutiveNoCompleteCount, hasEverEmitted, conversationMessages,
               recentToolKeys, fullText, toolCalls, lastEmittedDisplayLength, toolIdx,
               toolResults, imagePartsForVision>>
provVars == <<provPc, streamBuf, streamState, streamError, resultError, resultState,
              resolveCount, rejectCount, emitted>>
obsVars == <<requests, sentLength, invoked, spent, iterLog, outcome, notes, shown,
             cancelObserved>>
adapterVars == <<adapter, adapterPc, buffer, accumulatedToolCalls, pendingToolUse,
                 inputJsonAccum, arrived, toolUseOut, outbound, accumulatedContent>>
prepareVars == <<history, modelMetadata, historyToUse, counted, total, summary, runs,
                 services>>
vars == <<agentVars, provVars, obsVars, adapterVars, prepareVars>>

\* the messages passed to the last sendChatRequest: the array is passed itself and
\* is only ever pushed to, so what was sent is a prefix of what it holds now
lastSent == SubSeq(conversationMessages, 1, sentLength)

\* ------------------------------------------------ adapters: data model
\* an absent (undefined or null) field of a parsed line
None == "none"

\* argument text is a sequence of JSON tokens
JsonMember == "\"path\":\".\""
EmptyObject == "{}"
ParseError == "SyntaxError"

\* JSON.parse: the value of a complete document, ParseError when it throws
JSONparse(text) ==
  IF text = <<"{", "}">> THEN EmptyObject
  ELSE IF text = <<"{", JsonMember, "}">> THEN DotPath
  ELSE ParseError

\* the pieces in which a provider streams the argument text of a tool call
ArgumentFragments ==
  { <<"{">>, <<"}">>, <<"{", "}">>, <<"{", JsonMember>>, <<JsonMember, "}">> }

\* tool-call indices of one response
ToolIndices == {0, 1}

ToolCallIdOf(idx) == IF idx = 0 THEN "call_0" ELSE "call_1"

\* choice.delta.tool_calls[0] of an OpenAI line: the first delta of a call
\* carries id, name and empty arguments (or only the id), later ones a fragment
OpenAIDeltas ==
  { [type |-> "tool_calls", index |-> i, id |-> ToolCallIdOf(i), name |-> "listDirectory",
     hasArguments |-> TRUE, arguments |-> <<>>] : i \in ToolIndices } \cup
  { [type |-> "tool_calls", index |-> i, id |-> ToolCallIdOf(i), name |-> None,
     hasArguments |-> FALSE, arguments |-> <<>>] : i \in ToolIndices } \cup
  { [type |-> "tool_calls", index |-> i, id |-> None, name |-> None,
     hasArguments |-> TRUE, arguments |-> f] : i \in ToolIndices, f \in ArgumentFragments }

\* events of an Anthropic stream that concern tool_use content block i
AnthropicStart(i) ==
  [type |-> "content_block_start", index |-> i, id |-> ToolCallIdOf(i), name |-> "listDirectory"]
AnthropicDelta(i, f) ==
  [type |-> "content_block_delta", index |-> i, partial_json |-> f]
AnthropicStop(i) ==
  [type |-> "content_block_stop", index |-> i]

\* number of events of a type among the lines sent so far
RECURSIVE CountType(_, _)
CountType(events, t) ==
  IF events = <<>> THEN 0
  ELSE (IF Head(events).type = t THEN 1 ELSE 0) + CountType(Tail(events), t)

\* Anthropic sends content blocks one after the other: the lines that can
\* follow the ones sent so far
AnthropicEvents(sent) ==
  LET started == CountType(sent, "content_block_start")
      stopped == CountType(sent, "content_block_stop")
  IN IF started > stopped
     THEN { AnthropicDelta(started - 1, f) : f \in ArgumentFragments } \cup
          { AnthropicStop(started - 1) }
     ELSE { AnthropicStart(i) : i \in ToolIndices \cap {started} }

\* pendingToolUse = null
NoPending == [id |-> None, name |-> None]

\* accumulatedToolCalls = new Map()
NoAccumulated == [i \in ToolIndices |-> [present |-> FALSE, id |-> None, name |-> None, args |-> <<>>]]

\* the adapter variables before a response stream is listened to
AdapterIdle ==
  /\ adapter = "none"
  /\ adapterPc = "off"
  /\ buffer = <<>>
  /\ accumulatedToolCalls = NoAccumulated
  /\ pendingToolUse = NoPending
  /\ inputJsonAccum = <<>>
  /\ arrived = <<>>
  /\ toolUseOut = <<>>
  /\ outbound = <<>>
  /\ accumulatedContent = <<>>

Init ==
  /\ maxIterationsArg \in MaxIterationsArgs
  /\ MAX_ITERATIONS = Constructor(maxIterationsArg)
  /\ token = FALSE
  /\ cancelPoint = "none"
  /\ invokePc = "idle"
  /\ pc = "idle"
  /\ iterationCount = 0
  /\ consecutiveNoCompleteCount = 0
  /\ hasEverEmitted = FALSE
  /\ conversationMessages = <<>>
  /\ recentToolKeys = <<>>
  /\ fullText = <<>>
  /\ toolCalls = <<>>
  /\ lastEmittedDisplayLength = 0
  /\ toolIdx = 0
  /\ toolResults = <<>>
  /\ imagePartsForVision = <<>>
  /\ provPc = "none"
  /\ streamBuf = <<>>
  /\ streamState = "open"
  /\ streamError = NoError
  /\ resultError = NoError
  /\ resultState = "pending"
  /\ resolveCount = 0
  /\ rejectCount = 0
  /\ emitted = 0
  /\ requests = 0
  /\ sentLength = 0
  /\ invoked = <<>>
  /\ spent = 0
  /\ iterLog = <<>>
  /\ outcome = "none"
  /\ notes = {}
  /\ shown = <<>>
  /\ cancelObserved = FALSE
  /\ AdapterIdle
  /\ history = <<>>
  /\ modelMetadata = NoMetadata
  /\ historyToUse = <<>>
  /\ counted = 0
  /\ total = 0
  /\ summary = <<>>
  /\ runs = [i \in RunIds |-> NotCalled]
  /\ services = ServicesAtStart

\* ------------------------------------------------- LoCoPilotBuiltInAgent.invoke
\* `return this.unifiedAgent.run(...)` inside try, without await: the promise of
\* invoke adopts the promise of run, the catch block is not entered
InvokeOutcome(runOutcome) == runOutcome

\* no model is selected or registered: the "Chat is ready" help text
InvokeNoModel ==
  /\ invokePc = "idle"
  /\ invokePc' = "resolved"
  /\ notes' = notes \cup {"noAgentAvailable"}
  /\ UNCHANGED <<adapterVars, prepareVars, maxIterationsArg, MAX_ITERATIONS, token, cancelPoint, pc, iterationCount,
                 consecutiveNoCompleteCount, hasEverEmitted, conversationMessages,
                 recentToolKeys, fullText, toolCalls, lastEmittedDisplayLength, toolIdx,
                 toolResults, imagePartsForVision, provVars, requests, sentLength, invoked,
                 spent, iterLog, outcome, shown, cancelObserved>>

\* buildMessages / computeTotalTokenCount / summarization throws: caught
InvokePrepareThrows ==
  /\ invokePc = "idle"
  /\ invokePc' = "resolved"
  /\ notes' = notes \cup {"errorCallingModel"}
  /\ UNCHANGED <<adapterVars, prepareVars, maxIterationsArg, MAX_ITERATIONS, token, cancelPoint, pc, iterationCount,
                 consecutiveNoCompleteCount, hasEverEmitted, conversationMessages,
                 recentToolKeys, fullText, toolCalls, lastEmittedDisplayLength, toolIdx,
                 toolResults, imagePartsForVision, provVars, requests, sentLength, invoked,
                 spent, iterLog, outcome, shown, cancelObserved>>

\* invoke calls run; run initialises its locals and reaches the loop
InvokeRun ==
  /\ invokePc = "idle"
  /\ invokePc' = "awaitRun"
  /\ pc' = "loopTop"
  /\ iterationCount' = 0
  /\ consecutiveNoCompleteCount' = 0
  /\ hasEverEmitted' = FALSE
  /\ conversationMessages' = InitialMessages
  /\ recentToolKeys' = <<>>
  /\ UNCHANGED <<adapterVars, prepareVars, maxIterationsArg, MAX_ITERATIONS, token, cancelPoint, fullText, toolCalls,
                 lastEmittedDisplayLength, toolIdx, toolResults, imagePartsForVision,
                 provVars, obsVars>>

\* the invokeTool calls that have neither resolved nor thrown yet
InFlight(inv) == {j \in 1..Len(inv) : ~inv[j].settled}

\* run has a continuation ready to execute: it runs to its next await before
\* any I/O callback or user event is dispatched (promise jobs come first)
RunReady ==
  \/ pc = "loopTop"
  \/ pc = "tools" /\ InFlight(invoked) = {}
  \/ pc = "streaming" /\ (streamBuf # <<>> \/ streamState # "open")
  \/ pc = "awaitResult" /\ provPc = "settled"

\* the user cancels the request
Cancel ==
  /\ ~token
  /\ ~RunReady
  /\ invokePc \in {"idle", "counting", "summarizing", "awaitRun"}
  /\ token' = TRUE
  /\ cancelPoint' = IF invokePc # "awaitRun" \/ (iterationCount = 1 /\ pc = "streaming" /\ emitted = 0)
                    THEN "early" ELSE "late"
  /\ UNCHANGED <<adapterVars, prepareVars, maxIterationsArg, MAX_ITERATIONS, invokePc, pc, iterationCount,
                 consecutiveNoCompleteCount, hasEverEmitted, conversationMessages,
                 recentToolKeys, fullText, toolCalls, lastEmittedDisplayLength, toolIdx,
                 toolResults, imagePartsForVision, provVars, obsVars>>

\* ------------------------------------------------------------ UnifiedAgent.run
\* mutant: the bound is compared with <= instead of <
LoopConditionOffByOne(ic, max, cancelled) == ic <= max /\ ~cancelled

\* while (iterationCount < this.MAX_ITERATIONS && !token.isCancellationRequested)
LoopCondition(ic, max, cancelled) == ic < max /\ ~cancelled

\* mutant: the iteration-limit note needs the bound to be exceeded, not reached
EpilogueNotesStrict(ic, max, cnc, hee) ==
  IF ic >= max \/ cnc >= NoCompleteLimit
  THEN IF cnc >= NoCompleteLimit /\ ~hee THEN {"noResponse"}
       ELSE IF ic > max THEN {"maxIterations"}
       ELSE {}
  ELSE {}

\* lines 365-381: the notes emitted after the loop
EpilogueNotes(ic, max, cnc, hee) ==
  IF ic >= max \/ cnc >= NoCompleteLimit
  THEN IF cnc >= NoCompleteLimit /\ ~hee THEN {"noResponse"}
       ELSE IF ic >= max THEN {"maxIterations"}
       ELSE {}
  ELSE {}

\* the loop was left: epilogue, then `return {}`
Finish(o, cnc, newNotes) ==
  /\ pc' = "resolved"
  /\ outcome' = o
  /\ notes' = (notes \cup newNotes)
                \cup EpilogueNotes(iterationCount, MAX_ITERATIONS, cnc, hasEverEmitted)
  /\ invokePc' = InvokeOutcome("resolved")

\* an await inside run threw: the promise of run rejects
Raise ==
  /\ pc' = "rejected"
  /\ invokePc' = InvokeOutcome("rejected")

\* loop condition holds, sendChatRequest returns a response
LoopEnter ==
  /\ pc = "loopTop"
  /\ LoopCondition(iterationCount, MAX_ITERATIONS, token)
  /\ iterationCount' = iterationCount + 1
  /\ requests' = requests + 1
  /\ sentLength' = Len(conversationMessages)
  /\ pc' = "streaming"
  /\ fullText' = <<>>
  /\ toolCalls' = <<>>
  /\ lastEmittedDisplayLength' = 0
  /\ shown' = <<>>
  /\ provPc' = "requesting"
  /\ streamBuf' = <<>>
  /\ streamState' = "open"
  /\ streamError' = NoError
  /\ resultError' = NoError
  /\ resultState' = "pending"
  /\ resolveCount' = 0
  /\ rejectCount' = 0
  /\ emitted' = 0
  /\ UNCHANGED <<adapterVars, prepareVars, maxIterationsArg, MAX_ITERATIONS, token, cancelPoint, invokePc,
                 consecutiveNoCompleteCount, hasEverEmitted, conversationMessages,
                 recentToolKeys, toolIdx, toolResults, imagePartsForVision,
                 invoked, spent, iterLog, outcome, notes, cancelObserved>>

\* loop condition holds, sendChatRequest throws (model not found)
LoopEnterSendThrows ==
  /\ pc = "loopTop"
  /\ LoopCondition(iterationCount, MAX_ITERATIONS, token)
  /\ iterationCount' = iterationCount + 1
  /\ requests' = requests + 1
  /\ sentLength' = Len(conversationMessages)
  /\ Raise
  /\ UNCHANGED <<adapterVars, prepareVars, maxIterationsArg, MAX_ITERATIONS, token, cancelPoint,
                 consecutiveNoCompleteCount, hasEverEmitted, conversationMessages,
                 recentToolKeys, fullText, toolCalls, lastEmittedDisplayLength, toolIdx,
                 toolResults, imagePartsForVision, provVars,
                 invoked, spent, iterLog, outcome, notes, shown, cancelObserved>>

\* loop condition fails
LoopExit ==
  /\ pc = "loopTop"
  /\ ~LoopCondition(iterationCount, MAX_ITERATIONS, token)
  /\ Finish(IF iterationCount >= MAX_ITERATIONS THEN "iterlimit" ELSE "cancelled",
            consecutiveNoCompleteCount, {})
  /\ cancelObserved' = (cancelObserved \/ (iterationCount < MAX_ITERATIONS /\ token))
  /\ UNCHANGED <<adapterVars, prepareVars, maxIterationsArg, MAX_ITERATIONS, token, cancelPoint, iterationCount,
                 consecutiveNoCompleteCount, hasEverEmitted, conversationMessages,
                 recentToolKeys, fullText, toolCalls, lastEmittedDisplayLength, toolIdx,
                 toolResults, imagePartsForVision, provVars,
                 requests, sentLength, invoked, spent, iterLog, shown>>


\* ------------------------------------------- provider: _doSendChatRequest
\* mutant: finally resolves the stream whether or not it was rejected
FinallyResolvesAlways(rejectedFlag) == TRUE

\* finally { if (!rejected) stream.resolve(); }
FinallyResolves(rejectedFlag) == ~rejectedFlag

\* catch (e): an error whose message matches is replaced by the neutral one
\* (cause stays what actually happened)
ToThrow(e) == IF _isCanceledError(e) THEN [CanceledMessage EXCEPT !.cause = e.cause] ELSE e

\* the adapter call returned (threw = FALSE) or threw e: catch, finally, settle
DoSendSettle(threw, e) ==
  LET rejectedFlag == threw
      resolves == FinallyResolves(rejectedFlag)
  IN /\ provPc' = "settled"
     /\ rejectCount' = rejectCount + (IF threw THEN 1 ELSE 0)
     /\ resolveCount' = resolveCount + (IF resolves THEN 1 ELSE 0)
     /\ streamState' = IF threw THEN "rejected"
                       ELSE IF resolves THEN "resolved" ELSE streamState
     /\ streamError' = IF threw THEN ToThrow(e) ELSE NoError
     /\ resultError' = IF threw THEN ToThrow(e) ELSE NoError
     /\ resultState' = IF threw THEN "rejected" ELSE "resolved"

\* the adapter throws before streaming: unsupported provider, non-success
\* status, or requestService.request rejects (cancellation included)
AdapterThrows(e) ==
  /\ provPc = "requesting"
  /\ ~RunReady
  /\ requests <= MaxResponses
  /\ e.cause = "cancellation" => token
  /\ DoSendSettle(TRUE, e)
  /\ UNCHANGED <<adapterVars, prepareVars, agentVars, obsVars, streamBuf, emitted>>

\* listenStream(response.stream, listener, token): whether the listener is still
\* called once cancellation is requested.  An in-flight call is not terminated
\* by cancellation: its events keep arriving, the consumer discards them.
ListenStreamDelivers(cancelled) == TRUE

\* requestService.request returned status 200: listenStream is attached
RequestOk ==
  /\ provPc = "requesting"
  /\ ~RunReady
  /\ requests <= MaxResponses
  /\ provPc' = "listening"
  /\ UNCHANGED <<adapterVars, prepareVars, agentVars, obsVars, streamBuf, streamState, streamError, resultError, resultState,
                 resolveCount, rejectCount, emitted>>

\* the adapter emits a text event: stream.emitOne
EmitText(chunk) ==
  /\ provPc = "listening"
  /\ ListenStreamDelivers(token)
  /\ ~RunReady
  /\ pc = "streaming"
  /\ emitted < MaxParts
  /\ spent < MaxEvents
  /\ streamBuf' = Append(streamBuf, TextPart(chunk))
  /\ emitted' = emitted + 1
  /\ spent' = spent + 1
  /\ UNCHANGED <<adapterVars, prepareVars, agentVars, provPc, streamState, streamError, resultError, resultState,
                 resolveCount, rejectCount,
                 requests, sentLength, invoked, iterLog, outcome, notes, shown,
                 cancelObserved>>

\* the adapter emits a finalized tool_use event: stream.emitOne
EmitToolUse(name, params) ==
  /\ provPc = "listening"
  /\ ListenStreamDelivers(token)
  /\ ~RunReady
  /\ pc = "streaming"
  /\ emitted < MaxParts
  /\ spent < MaxEvents
  /\ streamBuf' = Append(streamBuf, ToolUsePart(name, <<requests, emitted + 1>>, params))
  /\ emitted' = emitted + 1
  /\ spent' = spent + 1
  /\ UNCHANGED <<adapterVars, prepareVars, agentVars, provPc, streamState, streamError, resultError, resultState,
                 resolveCount, rejectCount,
                 requests, sentLength, invoked, iterLog, outcome, notes, shown,
                 cancelObserved>>

\* onEnd: resolve(); the adapter returns
OnEnd ==
  /\ provPc = "listening"
  /\ ListenStreamDelivers(token)
  /\ ~RunReady
  /\ DoSendSettle(FALSE, NoError)
  /\ UNCHANGED <<adapterVars, prepareVars, agentVars, obsVars, streamBuf, emitted>>

\* onError: reject(error); the adapter throws
OnError(e) ==
  /\ provPc = "listening"
  /\ ListenStreamDelivers(token)
  /\ ~RunReady
  /\ DoSendSettle(TRUE, e)
  /\ UNCHANGED <<adapterVars, prepareVars, agentVars, obsVars, streamBuf, emitted>>

\* ------------------------------------------------ run: stream consumption
\* lines 157-183: what the final flush passes to progress
FinalFlush(text, lastLen) ==
  LET displayText == DisplayText(text)
      finalDelta == Slice(displayText, lastLen)
  IN IF finalDelta # <<>> THEN finalDelta
     ELSE IF Len(displayText) > 0 /\ lastLen = 0 THEN displayText
     ELSE <<>>

\* the for-await loop was left: flush, then await response.result
LeaveStream ==
  /\ pc' = "awaitResult"
  /\ shown' = shown \o FinalFlush(fullText, lastEmittedDisplayLength)
  /\ hasEverEmitted' = (hasEverEmitted \/ FinalFlush(fullText, lastEmittedDisplayLength) # <<>>)

\* a part arrives while cancellation is requested: break
ConsumeCancelled ==
  /\ pc = "streaming"
  /\ streamBuf # <<>>
  /\ token
  /\ streamBuf' = Tail(streamBuf)
  /\ cancelObserved' = TRUE
  /\ LeaveStream
  /\ UNCHANGED <<adapterVars, prepareVars, maxIterationsArg, MAX_ITERATIONS, token, cancelPoint, invokePc, iterationCount,
                 consecutiveNoCompleteCount, conversationMessages, recentToolKeys,
                 fullText, toolCalls, lastEmittedDisplayLength, toolIdx, toolResults,
                 imagePartsForVision,
                 provPc, streamState, streamError, resultError, resultState, resolveCount, rejectCount,
                 emitted, requests, sentLength, invoked, spent, iterLog, outcome, notes>>

\* a text part arrives; throttleElapsed: more than 100 ms since the last update
ConsumeText(throttleElapsed) ==
  /\ pc = "streaming"
  /\ streamBuf # <<>>
  /\ ~token
  /\ Head(streamBuf).type = "text"
  /\ streamBuf' = Tail(streamBuf)
  /\ LET newText == fullText \o Head(streamBuf).value
         displaySoFar == DisplaySoFar(newText)
         delta == Slice(displaySoFar, lastEmittedDisplayLength)
         emit == delta # <<>> /\ (throttleElapsed \/ lastEmittedDisplayLength = 0)
     IN /\ fullText' = newText
        /\ shown' = IF emit THEN shown \o delta ELSE shown
        /\ lastEmittedDisplayLength' =
             IF emit THEN Len(displaySoFar) ELSE lastEmittedDisplayLength
        /\ hasEverEmitted' = (hasEverEmitted \/ emit)
  /\ UNCHANGED <<adapterVars, prepareVars, maxIterationsArg, MAX_ITERATIONS, token, cancelPoint, invokePc, pc, iterationCount,
                 consecutiveNoCompleteCount, conversationMessages, recentToolKeys,
                 toolCalls, toolIdx, toolResults, imagePartsForVision,
                 provPc, streamState, streamError, resultError, resultState, resolveCount, rejectCount,
                 emitted, requests, sentLength, invoked, spent, iterLog, outcome, notes,
                 cancelObserved>>

\* a tool_use part arrives
ConsumeToolUse ==
  /\ pc = "streaming"
  /\ streamBuf # <<>>
  /\ ~token
  /\ Head(streamBuf).type = "tool_use"
  /\ streamBuf' = Tail(streamBuf)
  /\ toolCalls' = Append(toolCalls, Head(streamBuf))
  /\ UNCHANGED <<adapterVars, prepareVars, maxIterationsArg, MAX_ITERATIONS, token, cancelPoint, invokePc, pc, iterationCount,
                 consecutiveNoCompleteCount, hasEverEmitted, conversationMessages,
                 recentToolKeys, fullText, lastEmittedDisplayLength, toolIdx, toolResults,
                 imagePartsForVision,
                 provPc, streamState, streamError, resultError, resultState, resolveCount, rejectCount,
                 emitted, obsVars>>

\* the stream is exhausted and was resolved: the for-await loop ends
StreamEnds ==
  /\ pc = "streaming"
  /\ streamBuf = <<>>
  /\ streamState = "resolved"
  /\ LeaveStream
  /\ UNCHANGED <<adapterVars, prepareVars, maxIterationsArg, MAX_ITERATIONS, token, cancelPoint, invokePc, iterationCount,
                 consecutiveNoCompleteCount, conversationMessages, recentToolKeys,
                 fullText, toolCalls, lastEmittedDisplayLength, toolIdx, toolResults,
                 imagePartsForVision, provVars,
                 requests, sentLength, invoked, spent, iterLog, outcome, notes,
                 cancelObserved>>

\* the stream is exhausted and was rejected: the for-await loop throws
StreamThrows ==
  /\ pc = "streaming"
  /\ streamBuf = <<>>
  /\ streamState = "rejected"
  /\ Raise
  /\ UNCHANGED <<adapterVars, prepareVars, maxIterationsArg, MAX_ITERATIONS, token, cancelPoint, iterationCount,
                 consecutiveNoCompleteCount, hasEverEmitted, conversationMessages,
                 recentToolKeys, fullText, toolCalls, lastEmittedDisplayLength, toolIdx,
                 toolResults, imagePartsForVision, provVars, obsVars>>


\* ------------------------------------- run: after `await response.result`
\* mutant: the assistant message is appended whatever its content
WithAssistantMessageAlways ==
  Append(conversationMessages,
         [role |-> "assistant",
          content |-> (IF fullText # <<>> THEN <<TextPart(fullText)>> ELSE <<>>) \o toolCalls])

\* lines 187-205: the conversation with the assistant message appended
WithAssistantMessage ==
  LET assistantMessageContent ==
        (IF fullText # <<>> THEN <<TextPart(fullText)>> ELSE <<>>) \o toolCalls
  IN IF Len(assistantMessageContent) > 0
     THEN Append(conversationMessages,
                 [role |-> "assistant", content |-> assistantMessageContent])
     ELSE conversationMessages

\* lines 234-238
ThisRoundKeys == [i \in 1..Len(toolCalls) |-> ToolKey(toolCalls[i])]

\* lines 239-242: push, then keep the last REPEATED_TOOL_CALL_WINDOW keys
PushKeys(recent, keys) ==
  LET all == recent \o keys
  IN IF Len(all) > REPEATED_TOOL_CALL_WINDOW
     THEN SubSeq(all, Len(all) - REPEATED_TOOL_CALL_WINDOW + 1, Len(all))
     ELSE all

\* lines 243-245
SameKeyCount(recent, keys) ==
  IF Len(keys) > 0
  THEN Cardinality({i \in 1..Len(recent) : recent[i] = keys[1]})
  ELSE 0

\* mutant: the repetition threshold is compared with > instead of >=
RepeatedCallDetectedStrict(sameKeyCount) == sameKeyCount > REPEATED_TOOL_CALL_THRESHOLD

\* line 246
RepeatedCallDetected(sameKeyCount) == sameKeyCount >= REPEATED_TOOL_CALL_THRESHOLD

\* mutant: the counter keeps its value when the response has tool calls
NoCompleteCountAfterToolCallsKept(cnc) == cnc

\* line 231: consecutiveNoCompleteCount = 0
NoCompleteCountAfterToolCalls(cnc) == 0

\* mutant: the nudge limit is compared with > instead of >=
NudgeLimitReachedLate(cnc) == cnc > NoCompleteLimit

\* line 215
NudgeLimitReached(cnc) == cnc >= NoCompleteLimit

NudgeCount(conv) == Cardinality({i \in 1..Len(conv) : conv[i] = NudgeMessage})

LogEntry(conv) ==
  [calls |-> [i \in 1..Len(toolCalls) |->
                [name |-> toolCalls[i].name, parameters |-> toolCalls[i].parameters]],
   marker |-> Includes(fullText, TASK_COMPLETE_SIGNAL),
   nudges |-> NudgeCount(conv)]

ResultResolved ==
  /\ pc = "awaitResult"
  /\ provPc = "settled"
  /\ resultState = "resolved"

\* response.result rejects: run rejects
ResultRejects ==
  /\ pc = "awaitResult"
  /\ provPc = "settled"
  /\ resultState = "rejected"
  /\ Raise
  /\ UNCHANGED <<adapterVars, prepareVars, maxIterationsArg, MAX_ITERATIONS, token, cancelPoint, iterationCount,
                 consecutiveNoCompleteCount, hasEverEmitted, conversationMessages,
                 recentToolKeys, fullText, toolCalls, lastEmittedDisplayLength, toolIdx,
                 toolResults, imagePartsForVision, provVars, obsVars>>

\* mutant: the marker ends the run whether or not the response has tool calls
IsCompleteByMarker(calls, text) == Includes(text, TASK_COMPLETE_SIGNAL)

\* lines 208-209: toolCalls.length === 0, then fullText.includes(TASK_COMPLETE_SIGNAL)
IsComplete(calls, text) == Len(calls) = 0 /\ Includes(text, TASK_COMPLETE_SIGNAL)

\* no tool calls, the text includes the completion signal: break
CompleteDone ==
  /\ ResultResolved
  /\ IsComplete(toolCalls, fullText)
  /\ conversationMessages' = WithAssistantMessage
  /\ iterLog' = Append(iterLog, LogEntry(WithAssistantMessage))
  /\ Finish("done", consecutiveNoCompleteCount, {})
  /\ UNCHANGED <<adapterVars, prepareVars, maxIterationsArg, MAX_ITERATIONS, token, cancelPoint, iterationCount,
                 consecutiveNoCompleteCount, hasEverEmitted, recentToolKeys, fullText,
                 toolCalls, lastEmittedDisplayLength, toolIdx, toolResults,
                 imagePartsForVision, provVars,
                 requests, sentLength, invoked, spent, shown, cancelObserved>>

\* no tool calls, no signal, for the second time in a row: break
SilenceAbort ==
  /\ ResultResolved
  /\ Len(toolCalls) = 0
  /\ ~Includes(fullText, TASK_COMPLETE_SIGNAL)
  /\ NudgeLimitReached(consecutiveNoCompleteCount + 1)
  /\ consecutiveNoCompleteCount' = consecutiveNoCompleteCount + 1
  /\ conversationMessages' = WithAssistantMessage
  /\ iterLog' = Append(iterLog, LogEntry(WithAssistantMessage))
  /\ Finish("silence", consecutiveNoCompleteCount + 1, {})
  /\ UNCHANGED <<adapterVars, prepareVars, maxIterationsArg, MAX_ITERATIONS, token, cancelPoint, iterationCount,
                 hasEverEmitted, recentToolKeys, fullText,
                 toolCalls, lastEmittedDisplayLength, toolIdx, toolResults,
                 imagePartsForVision, provVars,
                 requests, sentLength, invoked, spent, shown, cancelObserved>>

\* no tool calls, no signal, for the first time: append the nudge, continue
Nudge ==
  /\ ResultResolved
  /\ Len(toolCalls) = 0
  /\ ~Includes(fullText, TASK_COMPLETE_SIGNAL)
  /\ ~NudgeLimitReached(consecutiveNoCompleteCount + 1)
  /\ consecutiveNoCompleteCount' = consecutiveNoCompleteCount + 1
  /\ conversationMessages' = Append(WithAssistantMessage, NudgeMessage)
  /\ iterLog' = Append(iterLog, LogEntry(Append(WithAssistantMessage, NudgeMessage)))
  /\ pc' = "loopTop"
  /\ UNCHANGED <<adapterVars, prepareVars, maxIterationsArg, MAX_ITERATIONS, token, cancelPoint, invokePc, iterationCount,
                 hasEverEmitted, recentToolKeys, fullText,
                 toolCalls, lastEmittedDisplayLength, toolIdx, toolResults,
                 imagePartsForVision, provVars,
                 requests, sentLength, invoked, spent, outcome, notes, shown,
                 cancelObserved>>

\* tool calls, the first one's key is in the window 3 times or more: break
RepetitionAbort ==
  /\ ResultResolved
  /\ Len(toolCalls) > 0
  /\ RepeatedCallDetected(SameKeyCount(PushKeys(recentToolKeys, ThisRoundKeys), ThisRoundKeys))
  /\ consecutiveNoCompleteCount' = NoCompleteCountAfterToolCalls(consecutiveNoCompleteCount)
  /\ recentToolKeys' = PushKeys(recentToolKeys, ThisRoundKeys)
  /\ conversationMessages' = WithAssistantMessage
  /\ iterLog' = Append(iterLog, LogEntry(WithAssistantMessage))
  /\ Finish("repetition", NoCompleteCountAfterToolCalls(consecutiveNoCompleteCount),
            {"repeatedToolCall"})
  /\ UNCHANGED <<adapterVars, prepareVars, maxIterationsArg, MAX_ITERATIONS, token, cancelPoint, iterationCount,
                 hasEverEmitted, fullText,
                 toolCalls, lastEmittedDisplayLength, toolIdx, toolResults,
                 imagePartsForVision, provVars,
                 requests, sentLength, invoked, spent, shown, cancelObserved>>

\* tool calls, no repetition: start executing them
StartTools ==
  /\ ResultResolved
  /\ Len(toolCalls) > 0
  /\ ~RepeatedCallDetected(SameKeyCount(PushKeys(recentToolKeys, ThisRoundKeys), ThisRoundKeys))
  /\ consecutiveNoCompleteCount' = NoCompleteCountAfterToolCalls(consecutiveNoCompleteCount)
  /\ recentToolKeys' = PushKeys(recentToolKeys, ThisRoundKeys)
  /\ conversationMessages' = WithAssistantMessage
  /\ iterLog' = Append(iterLog, LogEntry(WithAssistantMessage))
  /\ pc' = "tools"
  /\ toolIdx' = 1
  /\ toolResults' = <<>>
  /\ imagePartsForVision' = <<>>
  /\ UNCHANGED <<adapterVars, prepareVars, maxIterationsArg, MAX_ITERATIONS, token, cancelPoint, invokePc, iterationCount,
                 hasEverEmitted, fullText, toolCalls, lastEmittedDisplayLength, provVars,
                 requests, sentLength, invoked, spent, outcome, notes, shown,
                 cancelObserved>>

\* ------------------------------------------------- run: tool execution
\* lines 284-314: the tool_result value built from result.content
RECURSIVE ResultContent(_)
ResultContent(content) ==
  IF content = <<>> THEN <<>>
  ELSE LET item == Head(content)
       IN (IF item.kind = "text" THEN <<TextPart(item.value)>>
           ELSE IF item.kind = "data" /\ IsImageMime(item.mimeType)
                THEN <<TextPart("image placeholder")>>
           ELSE <<>>) \o ResultContent(Tail(content))

\* mutant: an empty result list is recorded as it is
NormalizedResultContentRaw(content) == ResultContent(content)

\* lines 309-314: the placeholder for an empty result list
NormalizedResultContent(content) ==
  IF Len(ResultContent(content)) = 0
  THEN <<TextPart("Tool executed successfully (no output)")>>
  ELSE ResultContent(content)

\* mutant: no image is collected for the vision message
VisionPartsNone(content) == <<>>

\* lines 297-304: the images collected for the vision message
RECURSIVE VisionParts(_)
VisionParts(content) ==
  IF content = <<>> THEN <<>>
  ELSE LET item == Head(content)
       IN (IF item.kind = "data" /\ IsImageMime(item.mimeType)
           THEN <<[type |-> "image_url", mimeType |-> item.mimeType, data |-> item.value]>>
           ELSE <<>>) \o VisionParts(Tail(content))

\* mutant: a thrown invocation is recorded like a successful one
ToolResultPartNoError(id, value, isError) ==
  [type |-> "tool_result", toolCallId |-> id, value |-> value, isError |-> FALSE]

\* mutant: the result does not carry the id of its call
ToolResultPartOtherId(id, value, isError) ==
  [type |-> "tool_result", toolCallId |-> <<0, 0>>, value |-> value, isError |-> isError]

ToolResultPart(id, value, isError) ==
  [type |-> "tool_result", toolCallId |-> id, value |-> value, isError |-> isError]

\* lines 343-360: tool results and images appended after the last tool call
WithToolMessages(conv, results, images) ==
  LET withResults == IF Len(results) > 0
                     THEN Append(conv, [role |-> "user", content |-> results])
                     ELSE conv
  IN IF Len(images) > 0
     THEN Append(withResults,
                 [role |-> "user",
                  content |-> <<TextPart("Image(s) from readFile")>> \o images])
     ELSE withResults

\* mutant: the loop does not wait for the invocation in flight
MayInvokeNextEager(inv) == TRUE

\* `await this.toolsService.invokeTool(...)`: the for-of loop reaches the next
\* call only when the awaited one has resolved or thrown
MayInvokeNext(inv) == InFlight(inv) = {}

\* lines 266-279: invokeTool is called for toolCalls[toolIdx] with the run's token
ToolInvoke ==
  /\ pc = "tools"
  /\ toolIdx <= Len(toolCalls)
  /\ MayInvokeNext(invoked)
  /\ LET tc == toolCalls[toolIdx]
     IN invoked' = Append(invoked, [iter |-> iterationCount, callId |-> tc.toolCallId,
                                    toolId |-> tc.name, parameters |-> tc.parameters,
                                    cancelled |-> token, settled |-> FALSE,
                                    threw |-> FALSE, content |-> <<>>])
  /\ UNCHANGED <<adapterVars, prepareVars, agentVars, provVars,
                 requests, sentLength, spent, iterLog, outcome, notes, shown, cancelObserved>>

\* the rest of one pass of the for-of loop: invokeTool returned `content` or threw
ToolStep(threw, content) ==
  /\ pc = "tools"
  /\ toolIdx <= Len(toolCalls)
  /\ InFlight(invoked) # {}
  /\ IF threw \/ content # <<TextItem>>
     THEN spent < MaxEvents /\ spent' = spent + 1
     ELSE spent' = spent
  /\ LET tc == toolCalls[toolIdx]
         part == IF threw
                 THEN ToolResultPart(tc.toolCallId, <<TextPart("Error executing tool")>>, TRUE)
                 ELSE ToolResultPart(tc.toolCallId, NormalizedResultContent(content), FALSE)
         results == Append(toolResults, part)
         images == IF threw THEN imagePartsForVision
                   ELSE imagePartsForVision \o VisionParts(content)
     IN /\ invoked' = [invoked EXCEPT ![Len(invoked)] =
                          [@ EXCEPT !.settled = TRUE, !.threw = threw, !.content = content]]
        /\ toolResults' = results
        /\ imagePartsForVision' = images
        /\ IF toolIdx = Len(toolCalls)
           THEN /\ conversationMessages' = WithToolMessages(conversationMessages, results, images)
                /\ pc' = "loopTop"
                /\ toolIdx' = toolIdx
           ELSE /\ toolIdx' = toolIdx + 1
                /\ UNCHANGED <<conversationMessages, pc>>
  /\ UNCHANGED <<adapterVars, prepareVars, maxIterationsArg, MAX_ITERATIONS, token, cancelPoint, invokePc, iterationCount,
                 consecutiveNoCompleteCount, hasEverEmitted, recentToolKeys, fullText,
                 toolCalls, lastEmittedDisplayLength, provVars,
                 requests, sentLength, iterLog, outcome, notes, shown,
                 cancelObserved>>

ToolReturns(content) == ToolStep(FALSE, content)

ToolThrows == ToolStep(TRUE, <<>>)

\* --------------------------------------------------------- specification
Next ==
  \/ InvokeNoModel
  \/ InvokePrepareThrows
  \/ InvokeRun
  \/ Cancel
  \/ LoopEnter
  \/ LoopEnterSendThrows
  \/ LoopExit
  \/ \E e \in AdapterErrors : AdapterThrows(e)
  \/ RequestOk
  \/ \E chunk \in TextChunks : EmitText(chunk)
  \/ \E tu \in ToolUseChoices : EmitToolUse(tu[1], tu[2])
  \/ OnEnd
  \/ \E e \in StreamErrors : OnError(e)
  \/ ConsumeCancelled
  \/ \E throttleElapsed \in BOOLEAN : ConsumeText(throttleElapsed)
  \/ ConsumeToolUse
  \/ StreamEnds
  \/ StreamThrows
  \/ ResultRejects
  \/ CompleteDone
  \/ SilenceAbort
  \/ Nudge
  \/ RepetitionAbort
  \/ StartTools
  \/ \E content \in ToolContents : ToolReturns(content)
  \/ ToolInvoke
  \/ ToolThrows

Spec == Init /\ [][Next]_vars

\* the agent constructed without a maxIterations argument
DefaultInit == Init /\ ~maxIterationsArg.given

SpecDefault == DefaultInit /\ [][Next]_vars

\* the agent constructed with a maxIterations argument that the constructor keeps
BoundedInit ==
  Init /\ maxIterationsArg.given /\ maxIterationsArg.value \in MaxIterationsFloor..MaxIterArg

SpecBounded == BoundedInit /\ [][Next]_vars


\* responses whose text also holds white-space chunks
NextDisplay ==
  \/ Next
  \/ \E chunk \in SpaceChunks : EmitText(chunk)

SpecDisplay == DefaultInit /\ [][NextDisplay]_vars

\* ---------------------------------------- adapters: tool-call accumulation
\* _callOpenAI onData, lines 281-291: one entry of choice.delta.tool_calls
AccumulateToolCall(acc, tc) ==
  LET idx == tc.index
      cur == acc[idx]
  IN [acc EXCEPT ![idx] =
        [present |-> TRUE,
         id |-> IF tc.id # None THEN tc.id ELSE cur.id,
         name |-> IF tc.name # None THEN tc.name ELSE cur.name,
         args |-> IF tc.hasArguments THEN cur.args \o tc.arguments ELSE cur.args]]

\* the parameters of a finalized call: JSON.parse inside try, {} in the catch
\* (_callOpenAI 306-322: `acc.args ? JSON.parse(acc.args) : {}`;
\*  _callAnthropic 406-413: `if (inputJsonAccum.trim())`)
FinalParameters(args) ==
  IF args = <<>> THEN EmptyObject
  ELSE IF JSONparse(args) # ParseError THEN JSONparse(args)
  ELSE EmptyObject

\* Array.from(keys).sort((a, b) => a - b), as a sequence
RECURSIVE SortedIndices(_)
SortedIndices(S) ==
  IF S = {} THEN <<>>
  ELSE LET m == CHOOSE x \in S : \A y \in S : x <= y
       IN <<m>> \o SortedIndices(S \ {m})

\* _callOpenAI onEnd, lines 302-324: the tool_use events for the indices
RECURSIVE EmitAccumulated(_, _)
EmitAccumulated(acc, indices) ==
  IF indices = <<>> THEN <<>>
  ELSE LET a == acc[Head(indices)]
       IN (IF a.id # None /\ a.name # None
           THEN <<ToolUsePart(a.name, a.id, FinalParameters(a.args))>>
           ELSE <<>>) \o EmitAccumulated(acc, Tail(indices))

\* the body of the for loop over the lines of onData, for one complete line
ProcessLine(ev) ==
  /\ arrived' = Append(arrived, ev)
  /\ IF adapter = "openai"
     THEN /\ accumulatedToolCalls' = AccumulateToolCall(accumulatedToolCalls, ev)
          /\ UNCHANGED <<pendingToolUse, inputJsonAccum, toolUseOut>>
     ELSE /\ UNCHANGED accumulatedToolCalls
          /\ IF ev.type = "content_block_delta"
             THEN /\ inputJsonAccum' = inputJsonAccum \o ev.partial_json
                  /\ UNCHANGED <<pendingToolUse, toolUseOut>>
             ELSE IF ev.type = "content_block_start"
             THEN /\ pendingToolUse' = [id |-> ev.id, name |-> ev.name]
                  /\ inputJsonAccum' = <<>>
                  /\ UNCHANGED toolUseOut
             ELSE IF ev.type = "content_block_stop" /\ pendingToolUse # NoPending
             THEN /\ toolUseOut' = Append(toolUseOut,
                        ToolUsePart(pendingToolUse.name, pendingToolUse.id,
                                    FinalParameters(inputJsonAccum)))
                  /\ pendingToolUse' = NoPending
                  /\ inputJsonAccum' = <<>>
             ELSE UNCHANGED <<pendingToolUse, inputJsonAccum, toolUseOut>>

\* the lines the provider can send next
NextLines ==
  IF adapter = "openai" THEN OpenAIDeltas ELSE AnthropicEvents(arrived \o buffer)

\* listenStream(response.stream, ...) is attached by _callOpenAI or _callAnthropic
Listen(kind) ==
  /\ adapterPc = "off"
  /\ adapter' = kind
  /\ adapterPc' = "open"
  /\ UNCHANGED <<agentVars, provVars, obsVars, prepareVars, outbound, accumulatedContent, buffer, accumulatedToolCalls, pendingToolUse,
                 inputJsonAccum, arrived, toolUseOut>>

\* onData: the chunk ends with a newline and holds one line
OnDataLine(ev) ==
  /\ adapterPc = "open"
  /\ buffer = <<>>
  /\ Len(arrived) < MaxLines
  /\ ProcessLine(ev)
  /\ UNCHANGED <<agentVars, provVars, obsVars, prepareVars, outbound, accumulatedContent, adapter, adapterPc, buffer>>

\* onData: the chunk ends inside a line: buffer = lines.pop()
OnDataPartialLine(ev) ==
  /\ adapterPc = "open"
  /\ buffer = <<>>
  /\ Len(arrived) < MaxLines
  /\ buffer' = <<ev>>
  /\ UNCHANGED <<agentVars, provVars, obsVars, prepareVars, outbound, accumulatedContent, adapter, adapterPc, accumulatedToolCalls,
                 pendingToolUse, inputJsonAccum, arrived, toolUseOut>>

\* onData: the chunk brings the rest of the buffered line and its newline
OnDataRestOfLine ==
  /\ adapterPc = "open"
  /\ buffer # <<>>
  /\ buffer' = <<>>
  /\ ProcessLine(buffer[1])
  /\ UNCHANGED <<agentVars, provVars, obsVars, prepareVars, outbound, accumulatedContent, adapter, adapterPc>>

\* onEnd: _callOpenAI emits the accumulated calls, _callAnthropic only resolves;
\* a line still in the buffer is not processed
AdapterOnEnd ==
  /\ adapterPc = "open"
  /\ adapterPc' = "ended"
  /\ toolUseOut' =
       IF adapter = "openai"
       THEN toolUseOut \o EmitAccumulated(accumulatedToolCalls,
              SortedIndices({i \in ToolIndices : accumulatedToolCalls[i].present}))
       ELSE toolUseOut
  /\ UNCHANGED <<agentVars, provVars, obsVars, prepareVars, outbound, accumulatedContent, adapter, buffer, accumulatedToolCalls,
                 pendingToolUse, inputJsonAccum, arrived>>

AdapterInit == DefaultInit

AdapterNext ==
  \/ \E kind \in {"openai", "anthropic"} : Listen(kind)
  \/ \E ev \in NextLines : OnDataLine(ev)
  \/ \E ev \in NextLines : OnDataPartialLine(ev)
  \/ OnDataRestOfLine
  \/ AdapterOnEnd

SpecAdapter == AdapterInit /\ [][AdapterNext]_vars

\* ------------------------------- LoCoPilotBuiltInAgent.invoke: auto-summarizer
\* the caller invokes the agent: historyToUse = history, the messages are built
\* and computeTotalTokenCount starts with total = 0
InvokeBegin(h, meta) ==
  /\ invokePc = "idle"
  /\ invokePc' = "counting"
  /\ history' = h
  /\ modelMetadata' = meta
  /\ historyToUse' = h
  /\ counted' = 0
  /\ total' = 0
  /\ UNCHANGED <<adapterVars, runs, services, maxIterationsArg, MAX_ITERATIONS, token, cancelPoint, pc,
                 iterationCount, consecutiveNoCompleteCount, hasEverEmitted,
                 conversationMessages, recentToolKeys, fullText, toolCalls,
                 lastEmittedDisplayLength, toolIdx, toolResults, imagePartsForVision,
                 provVars, obsVars, summary>>

\* invoke calls run with the messages built from historyToUse
RunWith(h) ==
  /\ invokePc' = "awaitRun"
  /\ pc' = "loopTop"
  /\ iterationCount' = 0
  /\ consecutiveNoCompleteCount' = 0
  /\ hasEverEmitted' = FALSE
  /\ conversationMessages' = buildMessages(h)
  /\ recentToolKeys' = <<>>

\* lines 1832-1839: the token count is in; the history is summarized, unless
\* getHistoryWithSummarizationIfNeeded returns early (lines 1108-1116), or the
\* loop is entered with the caller's history
Decide(totalTokens) ==
  IF /\ ShouldSummarize(totalTokens, MaxInputTokensOf(modelMetadata), history)
     /\ Len(history) > 1
     /\ OldEntries(history, KeepCount(history)) # <<>>
  THEN /\ invokePc' = "summarizing"
       /\ requests' = requests + 1
       /\ UNCHANGED <<pc, iterationCount, consecutiveNoCompleteCount, hasEverEmitted,
                      conversationMessages, recentToolKeys>>
  ELSE /\ RunWith(history)
       /\ UNCHANGED requests

\* computeTokenLength resolves for the next message
CountNext ==
  /\ invokePc = "counting"
  /\ counted < Len(buildMessages(history))
  /\ LET n == computeTokenLength(modelMetadata, buildMessages(history)[counted + 1])
     IN /\ counted' = counted + 1
        /\ total' = total + n
        /\ IF counted + 1 = Len(buildMessages(history))
           THEN Decide(total + n)
           ELSE UNCHANGED <<invokePc, requests, pc, iterationCount,
                            consecutiveNoCompleteCount, hasEverEmitted,
                            conversationMessages, recentToolKeys>>
  /\ UNCHANGED <<adapterVars, runs, services, maxIterationsArg, MAX_ITERATIONS, token, cancelPoint, fullText,
                 toolCalls, lastEmittedDisplayLength, toolIdx, toolResults,
                 imagePartsForVision, provVars, sentLength, invoked, spent, iterLog,
                 outcome, notes, shown, cancelObserved, history, modelMetadata,
                 historyToUse, summary>>

\* computeTokenLength rejects for the next message: the catch block
CountFails ==
  /\ invokePc = "counting"
  /\ counted < Len(buildMessages(history))
  /\ LET estimate == FallbackLoop(total, buildMessages(history))
     IN /\ total' = estimate
        /\ Decide(estimate)
  /\ UNCHANGED <<adapterVars, runs, services, maxIterationsArg, MAX_ITERATIONS, token, cancelPoint, fullText,
                 toolCalls, lastEmittedDisplayLength, toolIdx, toolResults,
                 imagePartsForVision, provVars, sentLength, invoked, spent, iterLog,
                 outcome, notes, shown, cancelObserved, history, modelMetadata,
                 historyToUse, counted, summary>>

\* summarizeHistoryEntries returns summary.trim(): the stream has delivered its
\* chunks and ended, response.result has resolved
SummaryReturns(chunks) ==
  /\ invokePc = "summarizing"
  /\ summary' = Join(chunks)
  /\ historyToUse' = CompactedHistory(history, Trim(Join(chunks)), token)
  /\ RunWith(CompactedHistory(history, Trim(Join(chunks)), token))
  /\ UNCHANGED <<adapterVars, runs, services, maxIterationsArg, MAX_ITERATIONS, token, cancelPoint, fullText,
                 toolCalls, lastEmittedDisplayLength, toolIdx, toolResults,
                 imagePartsForVision, provVars, obsVars, history, modelMetadata, counted,
                 total>>

\* sendChatRequest throws, or the stream or the result rejects after some
\* chunks: nothing between summarizeHistoryEntries and the catch block of invoke
\* handles it; the error is shown and invoke returns {}
SummaryThrows(failure, chunks) ==
  /\ invokePc = "summarizing"
  /\ summary' = IF failure = "sendChatRequest throws" THEN <<>> ELSE Join(chunks)
  /\ invokePc' = "resolved"
  /\ notes' = notes \cup {"errorCallingModel"}
  /\ UNCHANGED <<adapterVars, runs, services, maxIterationsArg, MAX_ITERATIONS, token, cancelPoint, pc,
                 iterationCount, consecutiveNoCompleteCount, hasEverEmitted,
                 conversationMessages, recentToolKeys, fullText, toolCalls,
                 lastEmittedDisplayLength, toolIdx, toolResults, imagePartsForVision,
                 provVars, requests, sentLength, invoked, spent, iterLog, outcome, shown,
                 cancelObserved, history, modelMetadata, historyToUse, counted, total>>

PrepareNext ==
  \/ \E h \in Histories, meta \in ModelMetadatas : InvokeBegin(h, meta)
  \/ CountNext
  \/ CountFails
  \/ Cancel
  \/ \E chunks \in SummaryStreams : SummaryReturns(chunks)
  \/ \E failure \in {"sendChatRequest throws", "stream rejects", "result rejects"},
        chunks \in SummaryStreams : SummaryThrows(failure, chunks)

SpecPrepare == DefaultInit /\ [][PrepareNext]_vars

\* ------------------------------------------- provider: one adapter call (HTTP)
\* model.provider values whose adapter always puts options.tools in the body
CloudProviders == {"openai", "anthropic", "google"}
\* adapters that inject the tools into the system prompt unless useNativeTools
LocalProviders == {"huggingface", "ollama", "localhost"}

\* what requestService.request gives back: a response with a status code, or a
\* rejection (transport failure, cancellation)
Answers ==
  { [statusCode |-> c, error |-> NoError] :
      c \in {200, 400, 401, 403, 404, 429, 500, 502, 503, 504} } \cup
  { [statusCode |-> 0, error |-> e] :
      e \in StreamErrors \cup {x \in AdapterErrors : x.cause = "cancellation"} }

\* _getApiErrorMessage(provider, statusCode): the sentence, without the
\* provider's name
_getApiErrorMessage(provider, statusCode) ==
  CASE statusCode = 400 -> "Invalid request. Please check your model name"
    [] statusCode = 401 -> "Invalid or missing API key"
    [] statusCode = 403 -> "Access denied"
    [] statusCode = 404 ->
         IF provider = "ollama" THEN "Model not found in Ollama" ELSE "Resource not found"
    [] statusCode = 429 -> "Rate limit exceeded"
    [] statusCode \in {500, 502, 503} ->
         IF provider = "ollama" THEN "Ollama server is not responding"
         ELSE "service is temporarily unavailable"
    [] OTHER -> "Something went wrong"

\* the Error thrown for a status other than 200: _callOpenAI 250-252 and the
\* like; _callLocalModel 667-672, _callLocalhostModel 1167-1172
StatusError(provider, statusCode) ==
  [msg |-> IF provider \in {"huggingface", "localhost"}
           THEN IF statusCode \in {404, 502, 503} THEN "server is not running"
                ELSE "request failed"
           ELSE _getApiErrorMessage(provider, statusCode),
   mentionsCancel |-> FALSE, cause |-> "status"]

\* mutant: every error status of a request with tools is retried
RetriesWithoutToolsOnError(provider, statusCode, bodyTools) ==
  provider \in {"huggingface", "localhost"} /\ statusCode >= 400 /\ bodyTools

\* response.res.statusCode === 400 && body.tools, in _callLocalModel and
\* _callLocalhostModel only
RetriesWithoutTools(provider, statusCode, bodyTools) ==
  provider \in {"huggingface", "localhost"} /\ statusCode = 400 /\ bodyTools

\* _doSendChatRequest calls the adapter of model.provider, which sends its
\* request; body.tools is set when tools are given and not prompt-injected
CallAdapter(provider, tools, useNativeTools) ==
  /\ adapterPc = "off"
  /\ adapter' = provider
  /\ adapterPc' = "requesting"
  /\ outbound' = << [tools |-> tools /\ (provider \in CloudProviders \/ useNativeTools),
                     injected |-> tools /\ provider \in LocalProviders /\ ~useNativeTools,
                     statusCode |-> 0] >>
  /\ UNCHANGED <<agentVars, provVars, obsVars, prepareVars, buffer, accumulatedToolCalls,
                 pendingToolUse, inputJsonAccum, arrived, toolUseOut, accumulatedContent>>

\* requestService.request settles: the fallback request without tools, the
\* throw for a status other than 200 or for a rejection (caught by
\* _doSendChatRequest, which rejects the stream), or listenStream
Response(answer) ==
  /\ adapterPc = "requesting"
  /\ answer.error.cause = "cancellation" => token
  /\ LET n == Len(outbound)
         answered == [outbound EXCEPT ![n].statusCode = answer.statusCode]
     IN IF answer.error # NoError
        THEN /\ outbound' = outbound
             /\ adapterPc' = "ended"
             /\ DoSendSettle(TRUE, answer.error)
        ELSE IF n = 1 /\ RetriesWithoutTools(adapter, answer.statusCode, outbound[1].tools)
        THEN /\ outbound' = Append(answered, [outbound[1] EXCEPT !.tools = FALSE])
             /\ UNCHANGED <<adapterPc, provVars>>
        ELSE IF answer.statusCode # 200
        THEN /\ outbound' = answered
             /\ adapterPc' = "ended"
             /\ DoSendSettle(TRUE, StatusError(adapter, answer.statusCode))
        ELSE /\ outbound' = answered
             /\ adapterPc' = "open"
             /\ UNCHANGED provVars
  /\ UNCHANGED <<agentVars, obsVars, prepareVars, streamBuf, emitted, adapter, buffer,
                 accumulatedToolCalls, pendingToolUse, inputJsonAccum, arrived, toolUseOut,
                 accumulatedContent>>

\* ----------------------------------- provider: events of one response stream
\* the lines a cloud provider can send next: text and thinking deltas, and what
\* announces a tool call (OpenAI: a delta with id, name and arguments; Anthropic:
\* the events of a tool_use content block; Google: a functionCall part)
CloudLines ==
  { [type |-> t, value |-> v] : t \in {"text", "thinking"}, v \in {<<"a">>, <<"b">>} } \cup
  ( IF adapter = "openai"
    THEN { d \in OpenAIDeltas : d.id # None /\ d.name # None }
    ELSE IF adapter = "anthropic" THEN AnthropicEvents(arrived)
    ELSE { [type |-> "functionCall", index |-> i, name |-> "listDirectory"] : i \in ToolIndices } )

\* mutant: thinking deltas are not passed on
LineOutputNoThinking(provider, ev, pending, accum) ==
  IF ev.type = "text" THEN <<TextPart(ev.value)>> ELSE <<>>

\* the parts one line makes the adapter pass to stream.emitOne: _callOpenAI
\* 273-278, _callAnthropic 393-419, _callGoogle 531-548
LineOutput(provider, ev, pending, accum) ==
  IF ev.type \in {"text", "thinking"} THEN <<[type |-> ev.type, value |-> ev.value]>>
  ELSE IF provider = "google" /\ ev.type = "functionCall"
  THEN <<ToolUsePart(ev.name, ToolCallIdOf(ev.index), EmptyObject)>>
  ELSE IF provider = "anthropic" /\ ev.type = "content_block_stop" /\ pending # NoPending
  THEN <<ToolUsePart(pending.name, pending.id, FinalParameters(accum))>>
  ELSE <<>>

\* onData of a cloud adapter, for one complete line
StreamLine(ev) ==
  /\ adapterPc = "open"
  /\ adapter \in CloudProviders
  /\ Len(arrived) < MaxLines
  /\ arrived' = Append(arrived, ev)
  /\ LET out == LineOutput(adapter, ev, pendingToolUse, inputJsonAccum)
     IN /\ streamBuf' = streamBuf \o out
        /\ emitted' = emitted + Len(out)
  /\ accumulatedToolCalls' =
       IF adapter = "openai" /\ ev.type = "tool_calls"
       THEN AccumulateToolCall(accumulatedToolCalls, ev) ELSE accumulatedToolCalls
  /\ pendingToolUse' =
       IF adapter # "anthropic" THEN pendingToolUse
       ELSE IF ev.type = "content_block_start" THEN [id |-> ev.id, name |-> ev.name]
       ELSE IF ev.type = "content_block_stop" THEN NoPending
       ELSE pendingToolUse
  /\ inputJsonAccum' =
       IF adapter # "anthropic" THEN inputJsonAccum
       ELSE IF ev.type = "content_block_delta" THEN inputJsonAccum \o ev.partial_json
       ELSE IF ev.type = "content_block_start"
               \/ (ev.type = "content_block_stop" /\ pendingToolUse # NoPending) THEN <<>>
       ELSE inputJsonAccum
  /\ UNCHANGED <<agentVars, obsVars, prepareVars, provPc, streamState, streamError,
                 resultError, resultState, resolveCount, rejectCount, adapter, adapterPc,
                 buffer, toolUseOut, outbound, accumulatedContent>>

\* the object of the injected protocol, {"tool_calls": [{"id": ..., "function":
\* {"name": ..., "arguments": "{}"}}]}, as four symbols
ToolCallsKey == "\"tool_calls\""
ToolCallJson == <<"{", ToolCallsKey, ":[call_0 listDirectory {}]", "}">>

\* the content deltas of a local model: words, white space, and the pieces in
\* which the object arrives
ContentChunks ==
  { <<"Sure">>, ToolCallJson, <<"Sure", " ">> \o ToolCallJson,
    <<"{", ToolCallsKey>>, <<":[call_0 listDirectory {}]", "}">>, <<"Sure", "{">>,
    SubSeq(ToolCallJson, 2, 4), SubSeq(ToolCallJson, 1, 3), <<"}">> }

\* accumulatedContent.match(/\{[\s\S]*"tool_calls"[\s\S]*\}/): the match runs
\* from the first "{" that has the key behind it to the last "}" behind the key
Match(content) ==
  LET open == {i \in 1..Len(content) :
                 /\ content[i] = "{"
                 /\ \E j \in (i + 1)..Len(content) :
                      /\ content[j] = ToolCallsKey
                      /\ \E k \in (j + 1)..Len(content) : content[k] = "}"}
      first == CHOOSE i \in open : \A x \in open : i <= x
      last == CHOOSE k \in 1..Len(content) :
                content[k] = "}" /\ \A x \in (k + 1)..Len(content) : content[x] # "}"
  IN IF open = {} THEN [found |-> FALSE, index |-> 0, end |-> 0]
     ELSE [found |-> TRUE, index |-> first, end |-> last]

\* the try block of the manual detection: the object is found when the match
\* parses (JSON.parse) and has tool_calls
Detected(content) ==
  /\ Includes(content, <<ToolCallsKey>>)
  /\ Match(content).found
  /\ SubSeq(content, Match(content).index, Match(content).end) = ToolCallJson

\* text.length of the accumulated content: a word has four characters, the key
\* twelve, the list of calls is longer than either emission limit
RECURSIVE Length(_)
Length(content) ==
  IF content = <<>> THEN 0
  ELSE (CASE Head(content) \in {"{", "}", " "} -> 1
          [] Head(content) = ToolCallsKey -> 12
          [] Head(content) = "Sure" -> 4
          [] OTHER -> 1200) + Length(Tail(content))

\* !accumulatedContent.trim().startsWith('{') || accumulatedContent.length > limit
\* (1000 in _callLocalModel and _callLocalhostModel, 500 in _callOllamaModel)
EmitsNow(provider, content) ==
  \/ ~StartsWith(Trim(content), <<"{">>)
  \/ Length(content) > (IF provider = "ollama" THEN 500 ELSE 1000)

\* tc of the detected object stored into accumulatedToolCalls: acc.args = ...
WithManualCall(acc) ==
  [acc EXCEPT ![0] = [present |-> TRUE, id |-> ToolCallIdOf(0), name |-> "listDirectory",
                      args |-> <<"{", "}">>]]

\* onData of a local adapter, for one line with choice.delta.content
ContentDelta(chunk) ==
  /\ adapterPc = "open"
  /\ adapter \in LocalProviders
  /\ Len(arrived) < MaxChunks
  /\ arrived' = Append(arrived, chunk)
  /\ LET content == accumulatedContent \o chunk
         m == Match(content)
         beforeMatch == SubSeq(content, 1, m.index - 1)
         afterMatch == SubSeq(content, m.end + 1, Len(content))
     IN IF Detected(content)
        THEN /\ accumulatedToolCalls' = WithManualCall(accumulatedToolCalls)
             /\ IF adapter = "ollama"
                THEN /\ streamBuf' = IF Trim(beforeMatch) # <<>>
                                     THEN Append(streamBuf, TextPart(beforeMatch))
                                     ELSE streamBuf
                     /\ accumulatedContent' = afterMatch
                ELSE /\ streamBuf' = streamBuf
                     /\ accumulatedContent' = beforeMatch \o afterMatch
        ELSE /\ accumulatedToolCalls' = accumulatedToolCalls
             /\ IF EmitsNow(adapter, content)
                THEN /\ streamBuf' = Append(streamBuf, TextPart(content))
                     /\ accumulatedContent' = <<>>
                ELSE /\ streamBuf' = streamBuf
                     /\ accumulatedContent' = content
  /\ emitted' = emitted + (Len(streamBuf') - Len(streamBuf))
  /\ UNCHANGED <<agentVars, obsVars, prepareVars, provPc, streamState, streamError,
                 resultError, resultState, resolveCount, rejectCount, adapter, adapterPc,
                 buffer, pendingToolUse, inputJsonAccum, toolUseOut, outbound>>

\* onEnd: _callOllamaModel looks for the object once more and emits the text
\* that is left (984-1017); every adapter that accumulates calls emits them;
\* resolve(), and _doSendChatRequest resolves the stream
StreamEnd ==
  /\ adapterPc = "open"
  /\ adapterPc' = "ended"
  /\ LET m == Match(accumulatedContent)
         found == adapter = "ollama" /\ Detected(accumulatedContent)
         rest == IF found
                 THEN SubSeq(accumulatedContent, 1, m.index - 1)
                      \o SubSeq(accumulatedContent, m.end + 1, Len(accumulatedContent))
                 ELSE accumulatedContent
         acc == IF found THEN WithManualCall(accumulatedToolCalls) ELSE accumulatedToolCalls
         out == (IF adapter = "ollama" /\ Trim(rest) # <<>> THEN <<TextPart(rest)>> ELSE <<>>)
                \o (IF adapter \in {"anthropic", "google"} THEN <<>>
                    ELSE EmitAccumulated(acc,
                           SortedIndices({i \in ToolIndices : acc[i].present})))
     IN /\ accumulatedToolCalls' = acc
        /\ accumulatedContent' = IF adapter = "ollama" THEN rest ELSE accumulatedContent
        /\ streamBuf' = streamBuf \o out
        /\ emitted' = emitted + Len(out)
  /\ DoSendSettle(FALSE, NoError)
  /\ UNCHANGED <<agentVars, obsVars, prepareVars, adapter, buffer, pendingToolUse,
                 inputJsonAccum, arrived, toolUseOut, outbound>>

ProviderNext ==
  \/ \E provider \in CloudProviders \cup LocalProviders, tools \in BOOLEAN,
        useNativeTools \in BOOLEAN : CallAdapter(provider, tools, useNativeTools)
  \/ \E answer \in Answers : Response(answer)
  \/ Cancel
  \/ \E ev \in CloudLines : StreamLine(ev)
  \/ \E chunk \in ContentChunks : ContentDelta(chunk)
  \/ StreamEnd

SpecProvider == DefaultInit /\ [][ProviderNext]_vars

\* ------------------------------- overlapping invocations of UnifiedAgent.run
\* what the model answers to the requests of one invocation, in order; a request
\* past the end of the script is answered with the completion signal
ModelScripts ==
  LET text == [text |-> <<"Done.">>, calls |-> <<>>]
      empty == [text |-> <<>>, calls |-> <<>>]
      list == [text |-> <<>>,
               calls |-> <<ToolUsePart("listDirectory", "call_0", DotPath)>>]
      two == [text |-> <<"Done.">>,
              calls |-> <<ToolUsePart("listDirectory", "call_0", DotPath),
                          ToolUsePart("readFile", "call_1", NullParams)>>]
  IN { <<>>, <<text, text>>, <<empty, empty>>, <<list, list, list>>,
       <<two, text, list>>, <<list, empty>> }

\* lines 63-68: the locals of one invocation; conversationMessages = [...messages]
RunLocals(script) ==
  [NotCalled EXCEPT !.pc = "loopTop", !.script = script,
                    !.conversationMessages = InitialMessages]

\* mutant: the counter is a field of the instance, counted up by every invocation
IterationCountOfInstance(rs, i) == rs[1].iterationCount + rs[2].iterationCount

\* `let iterationCount = 0` inside run: the counter invocation i reads is its own
IterationCountOf(rs, i) == rs[i].iterationCount

\* the loop is left: lines 365-384
Returned(r, ic, max, o, newNotes) ==
  [r EXCEPT !.pc = "returned", !.outcome = o,
            !.notes = (@ \cup newNotes)
                        \cup EpilogueNotes(ic, max, r.consecutiveNoCompleteCount,
                                           r.hasEverEmitted)]

\* mutant: the loop is not left when its condition fails
LoopTopNoExit(r, ic, max) ==
  IF LoopCondition(ic, max, FALSE)
  THEN [r EXCEPT !.pc = "awaitResponse", !.iterationCount = ic + 1, !.requests = @ + 1]
  ELSE r

\* lines 80-100: the loop condition, iterationCount++, sendChatRequest
LoopTop(r, ic, max) ==
  IF LoopCondition(ic, max, FALSE)
  THEN [r EXCEPT !.pc = "awaitResponse", !.iterationCount = ic + 1, !.requests = @ + 1]
  ELSE Returned(r, ic, max, "iterlimit", {})

\* lines 102-255: the response was streamed and response.result has resolved
Received(r, ic, max) ==
  LET reply == IF r.requests <= Len(r.script) THEN r.script[r.requests]
               ELSE [text |-> <<"Done.", " ">> \o TASK_COMPLETE_SIGNAL, calls |-> <<>>]
      content == (IF reply.text # <<>> THEN <<TextPart(reply.text)>> ELSE <<>>)
                   \o reply.calls
      conv == IF Len(content) > 0
              THEN Append(r.conversationMessages,
                          [role |-> "assistant", content |-> content])
              ELSE r.conversationMessages
      keys == [j \in 1..Len(reply.calls) |-> ToolKey(reply.calls[j])]
      recent == PushKeys(r.recentToolKeys, keys)
      heard == [r EXCEPT !.conversationMessages = conv,
                         !.hasEverEmitted = (@ \/ DisplayText(reply.text) # <<>>)]
  IN IF Len(reply.calls) = 0
     THEN IF Includes(reply.text, TASK_COMPLETE_SIGNAL)
          THEN Returned(heard, ic, max, "done", {})
          ELSE IF NudgeLimitReached(r.consecutiveNoCompleteCount + 1)
          THEN Returned([heard EXCEPT !.consecutiveNoCompleteCount = @ + 1],
                        ic, max, "silence", {})
          ELSE [heard EXCEPT !.consecutiveNoCompleteCount = @ + 1,
                             !.conversationMessages = Append(conv, NudgeMessage),
                             !.pc = "loopTop"]
     ELSE IF RepeatedCallDetected(SameKeyCount(recent, keys))
          THEN Returned([heard EXCEPT !.consecutiveNoCompleteCount = 0,
                                      !.recentToolKeys = recent],
                        ic, max, "repetition", {"repeatedToolCall"})
          ELSE [heard EXCEPT !.consecutiveNoCompleteCount = 0,
                             !.recentToolKeys = recent, !.toolCalls = reply.calls,
                             !.toolIdx = 1, !.toolResults = <<>>, !.pc = "tools"]

\* lines 262-360: one pass of the for-of loop, the tool returning its text
ToolDone(r) ==
  LET tc == r.toolCalls[r.toolIdx]
      results == Append(r.toolResults,
                        ToolResultPart(tc.toolCallId,
                                       NormalizedResultContent(<<TextItem>>), FALSE))
      called == [r EXCEPT !.invoked = Append(@, ToolKey(tc)), !.toolResults = results]
  IN IF r.toolIdx = Len(r.toolCalls)
     THEN [called EXCEPT !.pc = "loopTop",
                         !.conversationMessages = WithToolMessages(@, results, <<>>)]
     ELSE [called EXCEPT !.toolIdx = @ + 1]

\* invocation i goes from one await to the next and is left as r; overlapped
\* observes that a step was taken while another invocation was in flight
Stepped(i, r) ==
  LET running(x) == x.pc \notin {"notCalled", "returned"}
  IN /\ runs' = [j \in RunIds |->
                   IF j = i
                   THEN [r EXCEPT !.overlapped =
                                     (@ \/ \E k \in RunIds \ {i} : running(runs[k]))]
                   ELSE [runs[j] EXCEPT !.overlapped = (@ \/ running(runs[j]))]]
     /\ UNCHANGED <<agentVars, provVars, obsVars, adapterVars, history, modelMetadata,
                    historyToUse, counted, total, summary, services>>

\* this.unifiedAgent.run(...) is called
RunCalled(i, script) ==
  /\ runs[i].pc = "notCalled"
  /\ Stepped(i, RunLocals(script))

RunLoopTop(i) ==
  /\ runs[i].pc = "loopTop"
  /\ Stepped(i, LoopTop(runs[i], IterationCountOf(runs, i), MAX_ITERATIONS))

RunReceives(i) ==
  /\ runs[i].pc = "awaitResponse"
  /\ Stepped(i, Received(runs[i], IterationCountOf(runs, i), MAX_ITERATIONS))

RunToolReturns(i) ==
  /\ runs[i].pc = "tools"
  /\ Stepped(i, ToolDone(runs[i]))

OverlapNext ==
  \/ \E i \in RunIds, script \in ModelScripts : RunCalled(i, script)
  \/ \E i \in RunIds : RunLoopTop(i)
  \/ \E i \in RunIds : RunReceives(i)
  \/ \E i \in RunIds : RunToolReturns(i)

SpecOverlap == Init /\ [][OverlapNext]_vars

\* ------------------------------------------------ run and the tool registry
\* request.userSelectedTools: the ids the user has switched off
UserSelections == { {}, {"readFile"} }

\* lines 390-414: toolsService.getTools(undefined), without the tools the user
\* has switched off (every tool of the model matches the model)
getAvailableTools(registered, disabled) == registered \ disabled

\* lines 419-432
formatToolsForLLM(tools) == { [type |-> "function", name |-> t] : t \in tools }

\* line 86: the catalog of a request is built from allTools, the array run has
\* read once at line 72
CatalogTools(r, registered) == r.allTools

\* a tool is registered while the program runs
RegisterTool(t) ==
  /\ t \notin services.tools
  /\ services' = [services EXCEPT !.tools = @ \cup {t}]
  /\ UNCHANGED <<agentVars, provVars, obsVars, adapterVars, history, modelMetadata,
                 historyToUse, counted, total, summary, runs>>

\* the disposable of a registration is disposed
UnregisterTool(t) ==
  /\ t \in services.tools
  /\ services' = [services EXCEPT !.tools = @ \ {t}]
  /\ UNCHANGED <<agentVars, provVars, obsVars, adapterVars, history, modelMetadata,
                 historyToUse, counted, total, summary, runs>>

\* run is called: lines 63-72
RegistryRunCalled(script, disabled) ==
  /\ runs[1].pc = "notCalled"
  /\ Stepped(1, [RunLocals(script) EXCEPT
                   !.userSelectedTools = disabled,
                   !.allTools = getAvailableTools(services.tools, disabled)])

\* lines 80-100; catalogs observes options.tools of each request next to the
\* tools the registry holds when the request is sent
RegistryLoopTop ==
  /\ runs[1].pc = "loopTop"
  /\ LET r == LoopTop(runs[1], IterationCountOf(runs, 1), MAX_ITERATIONS)
     IN Stepped(1, IF r.pc = "awaitResponse"
                   THEN [r EXCEPT !.catalogs =
                           Append(@, [tools |-> formatToolsForLLM(
                                                  CatalogTools(runs[1], services.tools)),
                                      registered |-> services.tools])]
                   ELSE r)

RegistryNext ==
  \/ \E t \in ToolIds : RegisterTool(t)
  \/ \E t \in ToolIds : UnregisterTool(t)
  \/ \E script \in ModelScripts, disabled \in UserSelections :
       RegistryRunCalled(script, disabled)
  \/ RegistryLoopTop
  \/ RunReceives(1)
  \/ RunToolReturns(1)

SpecRegistry == DefaultInit /\ [][RegistryNext]_vars

\* ------------------------------------------- agent settings and the agent
\* what the operator has typed into 'Max iterations per request' when Save is
\* clicked, with parseInt(value.trim(), 10) of it
SettingInputs ==
  { [text |-> "9", isNaN |-> FALSE, n |-> 9], [text |-> " 10", isNaN |-> FALSE, n |-> 10],
    [text |-> "12.7", isNaN |-> FALSE, n |-> 12], [text |-> "200", isNaN |-> FALSE, n |-> 200],
    [text |-> "501", isNaN |-> FALSE, n |-> 501], [text |-> "many", isNaN |-> TRUE, n |-> 0] }

\* saveAgentSettings: const minIterations = 10; const maxIterations = 500
SaveMinIterations == 10
SaveMaxIterations == 500

\* setMaxIterationsPerRequest: the value stored, String(clamped) read back by
\* parseInt(stored, 10)
setMaxIterationsPerRequest(value) ==
  Min(MaxIterationsCeiling, Max(MaxIterationsFloor, value))

\* getMaxIterationsPerRequest, for a stored value
getMaxIterationsPerRequest(stored) ==
  IF stored < 1 THEN DEFAULT_MAX_ITERATIONS
  ELSE Min(MaxIterationsCeiling, Max(MaxIterationsFloor, stored))

\* a model that answers every request with one tool call, three calls in turn
KeepsCallingTools ==
  [k \in 1..(MaxIterationsCeiling + 1) |->
     [text |-> <<>>,
      calls |-> << CASE k % 3 = 0 -> ToolUsePart("listDirectory", "call_0", DotPath)
                     [] k % 3 = 1 -> ToolUsePart("readFile", "call_0", NullParams)
                     [] OTHER -> ToolUsePart("listDirectory", "call_0", NullParams) >>]]

\* Save is clicked in the Agent Settings section
saveAgentSettings(input) ==
  /\ IF input.isNaN \/ input.n < SaveMinIterations \/ input.n > SaveMaxIterations
     THEN UNCHANGED services
     ELSE services' = [services EXCEPT !.stored = setMaxIterationsPerRequest(input.n),
                                       !.lastSaved = input.n]
  /\ UNCHANGED <<agentVars, provVars, obsVars, adapterVars, history, modelMetadata,
                 historyToUse, counted, total, summary, runs>>

\* the window is reloaded: LoCoPilotBuiltInAgent is constructed again and
\* constructs its UnifiedAgent with the value the settings service returns
ConstructAgent ==
  /\ runs[1].pc = "notCalled"
  /\ maxIterationsArg' = [given |-> TRUE,
                          value |-> getMaxIterationsPerRequest(services.stored)]
  /\ MAX_ITERATIONS' = Constructor([given |-> TRUE,
                                   value |-> getMaxIterationsPerRequest(services.stored)])
  /\ UNCHANGED <<token, cancelPoint, invokePc, pc, iterationCount,
                 consecutiveNoCompleteCount, hasEverEmitted, conversationMessages,
                 recentToolKeys, fullText, toolCalls, lastEmittedDisplayLength, toolIdx,
                 toolResults, imagePartsForVision, provVars, obsVars, adapterVars,
                 prepareVars>>

\* a request is started: invoke calls run on the agent's UnifiedAgent; savedAtCall
\* observes the value the operator has saved last
SettingsRunCalled(script) ==
  /\ runs[1].pc = "notCalled"
  /\ Stepped(1, [RunLocals(script) EXCEPT !.savedAtCall = services.lastSaved])

SettingsNext ==
  \/ \E input \in SettingInputs : saveAgentSettings(input)
  \/ ConstructAgent
  \/ \E script \in {<<>>, KeepsCallingTools} : SettingsRunCalled(script)
  \/ RunLoopTop(1)
  \/ RunReceives(1)
  \/ RunToolReturns(1)

SpecSettings == DefaultInit /\ [][SettingsNext]_vars

\* ------------------------------------------------ run under fair scheduling
\* the responses a model gives to one request
Replies ==
  { [text |-> <<"Done.">>, calls |-> <<>>],
    [text |-> <<>>, calls |-> <<>>],
    [text |-> <<"Done.", " ">> \o TASK_COMPLETE_SIGNAL, calls |-> <<>>],
    [text |-> <<>>, calls |-> <<ToolUsePart("listDirectory", "call_0", DotPath)>>],
    [text |-> <<"Done.">>,
     calls |-> <<ToolUsePart("listDirectory", "call_0", DotPath),
                 ToolUsePart("readFile", "call_1", NullParams)>>] }

\* every sequence of responses to the requests a bounded run can issue
ResponseSequences == [1..MaxIterArg -> Replies]

\* sendChatRequest throws, the stream rejects or response.result rejects: run
\* has no try/catch around its awaits, its promise rejects
RunAwaitThrows(i) ==
  /\ runs[i].pc = "awaitResponse"
  /\ Stepped(i, [runs[i] EXCEPT !.pc = "rejected"])

\* lines 325-341: invokeTool throws, the error is recorded as the tool's result
RunToolThrows(i) ==
  /\ runs[i].pc = "tools"
  /\ LET r == runs[i]
         tc == r.toolCalls[r.toolIdx]
         results == Append(r.toolResults,
                           ToolResultPart(tc.toolCallId,
                                          <<TextPart("Error executing tool")>>, TRUE))
         called == [r EXCEPT !.invoked = Append(@, ToolKey(tc)), !.toolResults = results]
     IN Stepped(i, IF r.toolIdx = Len(r.toolCalls)
                   THEN [called EXCEPT !.pc = "loopTop",
                                       !.conversationMessages =
                                          WithToolMessages(@, results, <<>>)]
                   ELSE [called EXCEPT !.toolIdx = @ + 1])

LiveNext ==
  \/ \E script \in ResponseSequences : RunCalled(1, script)
  \/ RunLoopTop(1)
  \/ RunReceives(1)
  \/ RunAwaitThrows(1)
  \/ RunToolReturns(1)
  \/ RunToolThrows(1)

\* run is resumed when the promise it awaits has settled; every request is
\* answered or fails, every tool invocation returns or throws
SpecLive ==
  /\ BoundedInit
  /\ [][LiveNext]_vars
  /\ WF_vars(RunLoopTop(1))
  /\ WF_vars(RunReceives(1) \/ RunAwaitThrows(1))
  /\ WF_vars(RunToolReturns(1) \/ RunToolThrows(1))










\* ------------------------------------------------------------------ claims
TerminalOutcomes == {"done", "silence", "repetition", "iterlimit", "cancelled"}

\* the invokeTool calls made in iteration i
InvokedAt(i) == {j \in 1..Len(invoked) : invoked[j].iter = i}

\* iteration i issued exactly one tool call, with this name and these parameters
SingleCall(i, c) == iterLog[i].calls = <<c>>

\* iteration i's response had no tool call and no completion marker
TextOnlyNoMarker(i) == Len(iterLog[i].calls) = 0 /\ ~iterLog[i].marker

\* C1: the number of sendChatRequest calls of a run never exceeds MAX_ITERATIONS,
\* and MAX_ITERATIONS is the maxIterations argument clamped to 1..100, 25 when
\* the argument is omitted.
C1_RequestsWithinMaxIterations ==
  /\ requests <= MAX_ITERATIONS
  /\ MAX_ITERATIONS >= 1 /\ MAX_ITERATIONS <= 100
  /\ ~maxIterationsArg.given => MAX_ITERATIONS = 25
  /\ maxIterationsArg.given /\ maxIterationsArg.value \in 1..100
       => MAX_ITERATIONS = maxIterationsArg.value
  /\ maxIterationsArg.given /\ maxIterationsArg.value < 1 => MAX_ITERATIONS = 1
  /\ maxIterationsArg.given /\ maxIterationsArg.value > 100 => MAX_ITERATIONS = 100

\* a run that used its whole bound of more than one request
C1_Witness ==
  /\ pc = "resolved"
  /\ requests = MAX_ITERATIONS
  /\ MAX_ITERATIONS > 1
  /\ outcome = "iterlimit"

\* C2: invoke with a model selected never rejects; when an await in run throws
\* (sendChatRequest, the stream, response.result) invoke still resolves, an
\* error is shown through progress and the run has not reached Done.
C2_InvokeNeverRejects ==
  /\ invokePc # "rejected"
  /\ pc = "rejected" =>
       /\ invokePc = "resolved"
       /\ "errorCallingModel" \in notes
       /\ outcome # "done"

\* C3: a run that returns left the loop by exactly one of the five exits, and
\* the 'Reached maximum number of iterations' note is emitted only in runs that
\* stopped because the iteration bound was exhausted.
C3_MaxIterationsNoteOnlyAtLimit ==
  /\ pc = "resolved" => outcome \in TerminalOutcomes
  /\ pc # "resolved" => outcome = "none"
  /\ "maxIterations" \in notes => outcome = "iterlimit"

\* C4: when three consecutive iterations each issue one tool call with the same
\* name and the same parameters, the first two calls are executed, the third
\* is not, the repetition note is shown, and the run ends by the repetition
\* exit with no further request.
C4_ThirdIdenticalCallNotExecuted ==
  \A i \in 1..(Len(iterLog) - 2) :
    (\E tu \in ToolUseChoices :
        LET c == [name |-> tu[1], parameters |-> tu[2]]
        IN SingleCall(i, c) /\ SingleCall(i + 1, c) /\ SingleCall(i + 2, c))
    => /\ Cardinality(InvokedAt(i)) = 1
       /\ Cardinality(InvokedAt(i + 1)) = 1
       /\ InvokedAt(i + 2) = {}
       /\ "repeatedToolCall" \in notes
       /\ pc = "resolved"
       /\ outcome = "repetition"
       /\ Len(iterLog) = i + 2
       /\ requests = i + 2

\* three identical single calls in a row were received
C4_Witness ==
  /\ Len(iterLog) = 3
  /\ \E tu \in ToolUseChoices :
       LET c == [name |-> tu[1], parameters |-> tu[2]]
       IN SingleCall(1, c) /\ SingleCall(2, c) /\ SingleCall(3, c)
  /\ outcome = "repetition"
  /\ Len(invoked) = 2

\* every iteration of the run received a response with at least one tool call
\* and no completion marker, and the run was not cancelled
AlwaysCallsTools ==
  /\ pc = "resolved"
  /\ ~token
  /\ Len(iterLog) >= 1
  /\ \A i \in 1..Len(iterLog) : Len(iterLog[i].calls) > 0 /\ ~iterLog[i].marker

ReachedLimit ==
  /\ requests = MAX_ITERATIONS
  /\ outcome = "iterlimit"
  /\ "maxIterations" \in notes

\* C5 as stated: a model that always calls a tool and never emits the marker
\* makes the loop perform exactly MAX_ITERATIONS requests and end at the
\* iteration limit with the note.
C5_AlwaysToolsReachesLimit == AlwaysCallsTools => ReachedLimit

\* C5 amended: the same, for a model whose calls never trip the repetition guard.
C5_AlwaysToolsNoRepetitionReachesLimit ==
  AlwaysCallsTools /\ outcome # "repetition" => ReachedLimit

\* a tool-calling run of three requests that ended at the iteration limit
C5_Witness ==
  /\ AlwaysCallsTools
  /\ outcome = "iterlimit"
  /\ requests = 3
  /\ Len(invoked) >= 3

\* C6: two responses in a row without tool calls and without the marker end
\* the run by the silence exit right after the second one: one nudge was
\* appended between them and sent with the second request, no third request.
C6_TwoSilentResponsesAbort ==
  \A i \in 1..(Len(iterLog) - 1) :
    TextOnlyNoMarker(i) /\ TextOnlyNoMarker(i + 1)
    => /\ pc = "resolved"
       /\ outcome = "silence"
       /\ Len(iterLog) = i + 1
       /\ requests = i + 1
       /\ iterLog[i + 1].nudges - (IF i = 1 THEN 0 ELSE iterLog[i - 1].nudges) = 1
       /\ NudgeCount(conversationMessages) = iterLog[i + 1].nudges
       /\ lastSent[Len(lastSent)] = NudgeMessage
       /\ NudgeCount(lastSent) = iterLog[i + 1].nudges

\* the silence exit was taken after a tool-calling iteration and two silent ones
C6_Witness ==
  /\ outcome = "silence"
  /\ Len(iterLog) = 3
  /\ TextOnlyNoMarker(2) /\ TextOnlyNoMarker(3)
  /\ NudgeCount(conversationMessages) = 1

ListCallMessage(m) ==
  /\ m.role = "assistant"
  /\ Len(m.content) = 1
  /\ m.content[1].type = "tool_use"
  /\ m.content[1].name = "listDirectory"
  /\ m.content[1].parameters = DotPath

DoneText == <<"Done.", " ", "[T", "C]">>

\* the scenario of C7 has run: first response one listDirectory call, second
\* response the text 'Done. [TASK_COMPLETE]'
C7_Scenario ==
  /\ pc = "resolved"
  /\ Len(iterLog) = 2
  /\ Len(conversationMessages) >= 5
  /\ ListCallMessage(conversationMessages[3])
  /\ conversationMessages[Len(conversationMessages)] =
       [role |-> "assistant", content |-> <<TextPart(DoneText)>>]

\* C7: in that scenario there is exactly one listDirectory invocation with
\* path ".", exactly two requests, the second carrying the assistant tool_use
\* message followed by its tool_result, the text shown for the final response
\* is 'Done.', and the run ends Done with no abort note.
C7_EndToEnd ==
  C7_Scenario =>
    /\ Len(invoked) = 1
    /\ invoked[1].toolId = "listDirectory"
    /\ invoked[1].parameters = DotPath
    /\ requests = 2
    /\ Len(lastSent) >= 4
    /\ ListCallMessage(lastSent[3])
    /\ lastSent[4].role = "user"
    /\ lastSent[4].content[1].type = "tool_result"
    /\ lastSent[4].content[1].toolCallId = lastSent[3].content[1].toolCallId
    /\ shown = <<"Done.">>
    /\ outcome = "done"
    /\ notes = {}

\* C8: when cancellation is requested before any chunk of the first stream is
\* consumed, no tool is invoked and neither run nor invoke rejects.
C8_EarlyCancelReturnsQuietly ==
  cancelPoint = "early" =>
    /\ Len(invoked) = 0
    /\ pc # "rejected"
    /\ invokePc # "rejected"

\* C9: once the run has observed cancellation it issues no further
\* sendChatRequest and the invocation does not reject.
C9_NoRequestNoRaiseAfterCancelObserved ==
  [][cancelObserved => (requests' = requests /\ pc' # "rejected" /\ invokePc' # "rejected")]_vars

\* C10: the stream of a request is resolved or rejected at most once, never
\* both; once _doSendChatRequest has returned or thrown it was completed
\* exactly once, by resolve when the result resolves and by reject when the
\* result rejects.
C10_StreamCompletedExactlyOnce ==
  /\ resolveCount + rejectCount <= 1
  /\ provPc = "settled" => resolveCount + rejectCount = 1
  /\ provPc = "settled" => (resultState = "resolved" <=> resolveCount = 1)
  /\ provPc = "settled" => (resultState = "rejected" <=> rejectCount = 1)
  /\ provPc \in {"requesting", "listening"} => resolveCount + rejectCount = 0

\* a request that failed because it was cancelled: the stream was rejected once
C10_Witness ==
  /\ provPc = "settled"
  /\ token
  /\ rejectCount = 1
  /\ streamError = CanceledMessage


\* C11: when an adapter error is caught the stream and the result are rejected
\* with the same error, and that error is the neutral 'Request was canceled'
\* message exactly when the failure was caused by cancellation.
C11_CanceledMessageIffCancellation ==
  provPc = "settled" /\ rejectCount = 1 =>
    /\ streamState = "rejected"
    /\ resultState = "rejected"
    /\ resultError = streamError
    /\ streamError.msg = CanceledMessage.msg <=> streamError.cause = "cancellation"

\* the argument fragments that arrived for tool-call index idx, concatenated
\* in arrival order
RECURSIVE ArrivedArguments(_, _)
ArrivedArguments(events, idx) ==
  IF events = <<>> THEN <<>>
  ELSE LET ev == Head(events)
           piece == IF ev.index # idx THEN <<>>
                    ELSE IF ev.type = "tool_calls" /\ ev.hasArguments THEN ev.arguments
                    ELSE IF ev.type = "content_block_delta" THEN ev.partial_json
                    ELSE <<>>
       IN piece \o ArrivedArguments(Tail(events), idx)

\* the name that arrived for tool-call index idx, None when none did
RECURSIVE ArrivedName(_, _)
ArrivedName(events, idx) ==
  IF events = <<>> THEN None
  ELSE LET ev == events[Len(events)]
       IN IF ev.index = idx /\ ev.type \in {"tool_calls", "content_block_start"}
             /\ ev.name # None
          THEN ev.name
          ELSE ArrivedName(SubSeq(events, 1, Len(events) - 1), idx)

\* the tool-call index an emitted tool_use event belongs to
IndexOfEvent(e) == CHOOSE i \in ToolIndices : ToolCallIdOf(i) = e.toolCallId

\* C12: every finalized tool_use event carries the id and the name delivered
\* for its index and has parameters equal to JSON.parse of the index's argument
\* fragments concatenated in arrival order; events are emitted in ascending
\* index order, one per index.
C12_ParametersAreParsedConcatenation ==
  /\ \A k \in 1..Len(toolUseOut) :
       LET e == toolUseOut[k]
           idx == IndexOfEvent(e)
       IN /\ e.name = ArrivedName(arrived, idx)
          /\ ArrivedArguments(arrived, idx) # <<>>
               => e.parameters = JSONparse(ArrivedArguments(arrived, idx))
  /\ \A k, l \in 1..Len(toolUseOut) :
       k < l => IndexOfEvent(toolUseOut[k]) < IndexOfEvent(toolUseOut[l])

\* C13: a tool call whose accumulated argument text is partial or invalid JSON
\* at finalization is never surfaced as a tool_use event.
C13_InvalidJsonNeverSurfaced ==
  \A k \in 1..Len(toolUseOut) :
    LET text == ArrivedArguments(arrived, IndexOfEvent(toolUseOut[k]))
    IN text = <<>> \/ JSONparse(text) # ParseError

\* side property: when the concatenated argument text is a complete JSON
\* document, the event's parameters are its parsed value
ValidArgumentsAreParsed ==
  \A k \in 1..Len(toolUseOut) :
    LET text == ArrivedArguments(arrived, IndexOfEvent(toolUseOut[k]))
    IN JSONparse(text) # ParseError => toolUseOut[k].parameters = JSONparse(text)

\* name and parameters of the invokeTool calls made in iteration i, in call order
InvokedCallsAt(i) ==
  LET s == SelectSeq(invoked, LAMBDA e : e.iter = i)
  IN [k \in 1..Len(s) |-> [name |-> s[k].toolId, parameters |-> s[k].parameters]]

IsPrefix(s, t) == Len(s) <= Len(t) /\ s = SubSeq(t, 1, Len(s))

\* C14: the tool calls of an iteration are invoked one at a time in the order
\* their tool_use events were received: at most one invocation of the run is in
\* flight, it is the latest one, the invocations of an iteration are a prefix
\* of its tool calls, and a call that was handed a cancelled token was handed
\* the token of the run.
C14_ToolsInvokedSequentiallyInOrder ==
  /\ \A j \in 1..Len(invoked) :
       /\ ~invoked[j].settled => j = Len(invoked)
       /\ invoked[j].iter \in 1..Len(iterLog)
       /\ invoked[j].cancelled => token
  /\ \A i \in 1..Len(iterLog) :
       LET done == InvokedCallsAt(i)
       IN /\ IsPrefix(done, iterLog[i].calls)
          /\ i < Len(iterLog) /\ done # <<>> => done = iterLog[i].calls

\* the second of two different calls of one iteration is in flight, the first has settled
C14_Witness ==
  /\ pc = "tools"
  /\ Len(toolCalls) = 2
  /\ toolCalls[1].name # toolCalls[2].name
  /\ Len(invoked) = 2
  /\ invoked[1].settled
  /\ InFlight(invoked) = {2}
  /\ invoked[2].toolId = toolCalls[2].name

\* the content parts of type t of all messages of a conversation, in order
RECURSIVE PartsOfType(_, _)
PartsOfType(conv, t) ==
  IF conv = <<>> THEN <<>>
  ELSE SelectSeq(Head(conv).content, LAMBDA part : part.type = t) \o PartsOfType(Tail(conv), t)

\* every tool_result part recorded so far: in the conversation, or still in
\* the toolResults of the running tool phase
AllToolResults ==
  PartsOfType(conversationMessages, "tool_result") \o (IF pc = "tools" THEN toolResults ELSE <<>>)

\* the tool_result parts among all that were recorded for call id
ResultsIn(all, id) == SelectSeq(all, LAMBDA part : part.toolCallId = id)

ResultsFor(id) == ResultsIn(AllToolResults, id)

\* P holds of every tool_result part recorded so far
EveryToolResult(P(_)) ==
  /\ \A k \in 1..Len(conversationMessages) :
       \A n \in 1..Len(conversationMessages[k].content) :
         conversationMessages[k].content[n].type = "tool_result"
           => P(conversationMessages[k].content[n])
  /\ pc = "tools" => \A n \in 1..Len(toolResults) : P(toolResults[n])

\* the tool phase of iteration i is over
PhaseOver(i) == i < iterationCount \/ pc # "tools"

\* invocation j threw, and what the claim says about it up to the point where
\* the loop is back at its head
FailureIsolated(j) ==
  LET i == invoked[j].iter
      r == ResultsFor(invoked[j].callId)
  IN /\ Len(r) = 1
     /\ r[1].isError
     /\ Len(r[1].value) >= 1
     /\ \A k \in 1..Len(r[1].value) : r[1].value[k].type = "text" /\ r[1].value[k].value # ""
     /\ PhaseOver(i) =>
          /\ InvokedCallsAt(i) = iterLog[i].calls
          /\ LET appended == PartsOfType(conversationMessages, "tool_result")
             IN \A k \in 1..Len(invoked) : invoked[k].iter = i =>
                  Len(ResultsIn(appended, invoked[k].callId)) = 1

RunEnded == pc \in {"resolved", "rejected"}

\* C15 as stated: a throwing invokeTool yields an isError tool_result with a
\* textual body, the remaining calls of the iteration are still invoked, the
\* results are appended, and the loop goes on to the next request.
C15_ToolFailureThenNextRequest ==
  \A j \in 1..Len(invoked) :
    invoked[j].settled /\ invoked[j].threw =>
      /\ FailureIsolated(j)
      /\ RunEnded => requests > invoked[j].iter

\* C15 amended: the same, the next request being issued when the iteration
\* bound is not exhausted and cancellation has not been requested.
C15_ToolFailureIsolated ==
  \A j \in 1..Len(invoked) :
    invoked[j].settled /\ invoked[j].threw =>
      /\ FailureIsolated(j)
      /\ RunEnded /\ invoked[j].iter < MAX_ITERATIONS /\ ~token => requests > invoked[j].iter
      /\ pc = "rejected" => requests > invoked[j].iter
      /\ outcome \in {"iterlimit", "cancelled"} \/ requests > invoked[j].iter \/ ~RunEnded

\* the first call of an iteration threw, the second was still invoked, and a
\* further request was issued
C15_Witness ==
  /\ Len(invoked) >= 2
  /\ invoked[1].threw
  /\ invoked[2].iter = invoked[1].iter
  /\ invoked[2].settled
  /\ requests > invoked[1].iter


\* a content item a tool returned that is text, or image data
IsTextItem(item) == item.kind = "text"
IsImageData(item) == item.kind = "data" /\ item.mimeType = "image/png"

\* C16: every tool_result part has at least one content part; for a tool that
\* returned an empty list, or only parts that are neither text nor image data,
\* the value is the single placeholder text part.
C16_ToolResultNeverEmpty ==
  LET all == AllToolResults
  IN /\ EveryToolResult(LAMBDA part : Len(part.value) >= 1)
     /\ \A j \in 1..Len(invoked) :
          (/\ invoked[j].settled
           /\ ~invoked[j].threw
           /\ \A n \in 1..Len(invoked[j].content) :
                ~IsTextItem(invoked[j].content[n]) /\ ~IsImageData(invoked[j].content[n]))
          => LET r == ResultsIn(all, invoked[j].callId)
             IN /\ Len(r) = 1
                /\ ~r[1].isError
                /\ r[1].value = <<[type |-> "text", value |-> "Tool executed successfully (no output)"]>>

\* one tool returned an empty list and another only a part of another kind
C16_Witness ==
  /\ \E j \in 1..Len(invoked) :
       invoked[j].settled /\ ~invoked[j].threw /\ invoked[j].content = <<>>
  /\ \E j \in 1..Len(invoked) :
       invoked[j].settled /\ invoked[j].content = <<OtherItem>>
  /\ Len(PartsOfType(conversationMessages, "tool_result")) >= 2

\* the images the tools of iteration i returned, as image_url parts, in order
RECURSIVE ReturnedImages(_, _)
ReturnedImages(inv, i) ==
  IF inv = <<>> THEN <<>>
  ELSE LET e == Head(inv)
           imgs == IF e.iter = i /\ e.settled /\ ~e.threw
                   THEN SelectSeq(e.content, IsImageData) ELSE <<>>
       IN [n \in 1..Len(imgs) |->
             [type |-> "image_url", mimeType |-> imgs[n].mimeType, data |-> imgs[n].value]]
          \o ReturnedImages(Tail(inv), i)

IsResultsMessage(m) ==
  m.role = "user" /\ Len(m.content) >= 1 /\ m.content[1].type = "tool_result"

IsImageMessage(m) ==
  m.role = "user" /\ \E n \in 1..Len(m.content) : m.content[n].type = "image_url"

\* C17: no tool_result holds an image part; each image a tool returned is
\* replaced in its tool_result by a text part, and the images of an iteration
\* are one user message right after that iteration's tool-results message,
\* there before the next request is issued.
C17_ImagesMovedToUserMessage ==
  /\ LET all == AllToolResults
     IN /\ EveryToolResult(LAMBDA part :
                             \A n \in 1..Len(part.value) : part.value[n].type = "text")
        /\ \A j \in 1..Len(invoked) :
             invoked[j].settled /\ ~invoked[j].threw /\ invoked[j].content # <<>>
             /\ (\A n \in 1..Len(invoked[j].content) : IsImageData(invoked[j].content[n]))
             => LET r == ResultsIn(all, invoked[j].callId)
                IN Len(r) = 1 /\ Len(r[1].value) = Len(invoked[j].content)
  /\ \A k \in 1..Len(conversationMessages) :
       IsResultsMessage(conversationMessages[k]) =>
         /\ \E j \in 1..Len(invoked) :
              invoked[j].callId = conversationMessages[k].content[1].toolCallId
         /\ LET j == CHOOSE j \in 1..Len(invoked) :
                       invoked[j].callId = conversationMessages[k].content[1].toolCallId
                i == invoked[j].iter
                imgs == ReturnedImages(invoked, i)
                next == IF k < Len(conversationMessages)
                        THEN <<conversationMessages[k + 1]>> ELSE <<>>
            IN IF imgs = <<>>
               THEN next = <<>> \/ ~IsImageMessage(next[1])
               ELSE /\ next # <<>>
                    /\ next[1].role = "user"
                    /\ SelectSeq(next[1].content, LAMBDA part : part.type = "image_url") = imgs
                    /\ requests > i => Len(lastSent) >= k + 1 /\ lastSent[k + 1] = next[1]
  /\ \A j \in 1..Len(invoked) :
       (/\ invoked[j].settled
        /\ PhaseOver(invoked[j].iter)
        /\ \E n \in 1..Len(invoked[j].content) : IsImageData(invoked[j].content[n]))
       => \E k \in 1..Len(conversationMessages) :
            /\ IsResultsMessage(conversationMessages[k])
            /\ \E n \in 1..Len(conversationMessages[k].content) :
                 conversationMessages[k].content[n].toolCallId = invoked[j].callId
  /\ \A k \in 1..Len(conversationMessages) :
       IsImageMessage(conversationMessages[k]) =>
         k > 1 /\ IsResultsMessage(conversationMessages[k - 1])

\* two tools of one iteration returned an image each and the next request was sent
C17_Witness ==
  /\ requests = 2
  /\ Len(ReturnedImages(invoked, 1)) = 2
  /\ Len(SelectSeq(lastSent, IsImageMessage)) = 1

AssistantCount(conv) == Len(SelectSeq(conv, LAMBDA m : m.role = "assistant"))

\* the response of the current iteration has been received and handled
ResponseHandled == iterationCount >= 1 /\ Len(iterLog) = iterationCount

\* C18: no assistant message has zero content parts; an iteration whose stream
\* produced neither text nor tool calls appends no assistant message, any
\* other iteration appends one.
C18_NoEmptyAssistantMessage ==
  /\ \A k \in 1..Len(conversationMessages) :
       conversationMessages[k].role = "assistant" => Len(conversationMessages[k].content) >= 1
  /\ ResponseHandled =>
       AssistantCount(conversationMessages) =
         AssistantCount(lastSent) + (IF fullText = <<>> /\ toolCalls = <<>> THEN 0 ELSE 1)

\* an empty response was handled: only the nudge was added to what was sent
C18_Witness ==
  /\ ResponseHandled
  /\ fullText = <<>>
  /\ toolCalls = <<>>
  /\ conversationMessages = Append(lastSent, NudgeMessage)

ToolCallIds(parts) == [n \in 1..Len(parts) |-> parts[n].toolCallId]

ToolUsesOf(m) == SelectSeq(m.content, LAMBDA part : part.type = "tool_use")

\* C19: every tool_result carries the id of a tool_use of an earlier assistant
\* message, namely of the message right before the one that holds it; a
\* tool-results message holds one result per tool_use of that assistant message,
\* in the same order, and every completed tool phase has appended its results.
C19_ToolResultsMatchToolUses ==
  LET conv == conversationMessages
  IN /\ \A k \in 1..Len(conv) :
          (\E n \in 1..Len(conv[k].content) : conv[k].content[n].type = "tool_result") =>
            /\ k > 1
            /\ conv[k - 1].role = "assistant"
            /\ \A n \in 1..Len(conv[k].content) :
                 /\ conv[k].content[n].type = "tool_result"
                 /\ \E n0 \in 1..Len(conv[k - 1].content) :
                      /\ conv[k - 1].content[n0].type = "tool_use"
                      /\ conv[k - 1].content[n0].toolCallId = conv[k].content[n].toolCallId
            /\ ToolCallIds(conv[k].content) = ToolCallIds(ToolUsesOf(conv[k - 1]))
     /\ \A k \in 1..(Len(conv) - 1) :
          conv[k].role = "assistant" /\ ToolUsesOf(conv[k]) # <<>> => IsResultsMessage(conv[k + 1])
     /\ \A j \in 1..Len(invoked) :
          PhaseOver(invoked[j].iter) =>
            \E k \in 1..Len(conv) :
              \E n \in 1..Len(conv[k].content) :
                /\ conv[k].content[n].type = "tool_result"
                /\ conv[k].content[n].toolCallId = invoked[j].callId

\* a tool phase with two calls was completed and its results were sent
C19_Witness ==
  /\ \E k \in 1..Len(lastSent) :
       IsResultsMessage(lastSent[k]) /\ Len(lastSent[k].content) = 2
  /\ requests >= 2

\* C20: the markdownContent deltas emitted for an iteration, concatenated, are
\* the iteration's display text (the accumulated text with the completion
\* marker stripped), whatever the chunks and their timing.
C20_ShownIsDisplayText ==
  pc = "awaitResult" => shown = DisplayText(fullText)

\* ---------------------------------------------------------- history compaction
\* invoke is past the decision of line 1833
Decided == invokePc \in {"summarizing", "awaitRun", "resolved"}

\* the computed total is at least 90% of maxInputTokens
AtNinetyPercent == 10 * total >= 9 * MaxInputTokensOf(modelMetadata)

\* C21: compaction is attempted (a summarization request is made) exactly when
\* the computed total token count is at least 90% of maxInputTokens and the
\* history has more than one entry; otherwise the history used for the turn is
\* the caller's history and no summarization request is made
C21_CompactionIffThreshold ==
  Decided =>
    /\ (requests >= 1) <=> (AtNinetyPercent /\ Len(history) > 1)
    /\ ~(AtNinetyPercent /\ Len(history) > 1) => historyToUse = history /\ requests = 0

\* compaction was attempted with the total exactly at 90%
C21_Witness ==
  /\ invokePc = "awaitRun"
  /\ requests = 1
  /\ 10 * total = 9 * MaxInputTokensOf(modelMetadata)
  /\ historyToUse # history

\* the total is at 90% or above but the history has one entry: no compaction
ShortHistoryNotCompacted ==
  /\ invokePc = "awaitRun"
  /\ AtNinetyPercent
  /\ Len(history) = 1
  /\ requests = 0

\* getHistoryWithSummarizationIfNeeded was called and has returned
CompactionReturned == invokePc = "awaitRun" /\ requests = 1

\* the summary text is not empty and cancellation was not requested
SummarySucceeded == Trim(summary) # <<>> /\ ~token

\* C22 as stated: for every history with n >= 2 entries and a total at or above
\* the threshold, the history returned by compaction has exactly
\* ceil(0.1 * n) + 1 entries
C22_CompactedLength ==
  CompactionReturned => Len(historyToUse) = Ceil(Len(history), 10) + 1

\* C22 amended: the returned history has ceil(0.1 * n) + 1 entries when the
\* summary is not empty and cancellation was not requested, and the n entries
\* of the caller's history otherwise
C22_CompactedLengthOnSuccess ==
  CompactionReturned =>
    Len(historyToUse) = IF SummarySucceeded THEN Ceil(Len(history), 10) + 1
                        ELSE Len(history)

\* a history of more than ten entries was compacted: two recent entries are kept
C22_Witness ==
  /\ CompactionReturned
  /\ SummarySucceeded
  /\ Len(history) > 10
  /\ Len(historyToUse) = 3

\* the entries of the caller's history from position Len - k + 1 on
LastEntries(h, k) == [i \in 1..k |-> h[Len(h) - k + i]]

\* C23: when compaction succeeds, the returned history is one synthetic entry
\* tagged '[Earlier conversation summary]' that carries the summary text,
\* followed by the last max(1, ceil(0.1 * n)) entries of the original history
\* in their order; one model request was made for it, and the caller's history
\* is the sequence that was passed in
C23_SummaryThenRecentEntries ==
  (CompactionReturned /\ SummarySucceeded) =>
    LET n == Len(history)
        k == Max(1, Ceil(n, 10))
    IN /\ Len(historyToUse) = k + 1
       /\ historyToUse[1].message = SummaryTag
       /\ historyToUse[1].response = Trim(summary)
       /\ Tail(historyToUse) = LastEntries(history, k)
       /\ requests = 1
       /\ history = [i \in 1..n |-> HistoryEntry(i)]

\* a history of more than ten entries was compacted to the summary entry and
\* its last two entries
C23_Witness ==
  /\ CompactionReturned
  /\ SummarySucceeded
  /\ Len(history) > 10
  /\ historyToUse[1].message = SummaryTag
  /\ historyToUse[2] = history[Len(history) - 1]
  /\ historyToUse[3] = history[Len(history)]

\* the summarization request was made and summarizeHistoryEntries is over
SummarizationOver == requests = 1 /\ invokePc # "summarizing"

\* C24: when the summarization call fails (sendChatRequest throws, the stream or
\* the result rejects), is cancelled or yields empty output, compaction returns
\* the caller's history and the turn continues into the agent loop with it: a
\* summarization failure never aborts the turn
C24_SummaryFailureNeverAborts ==
  (SummarizationOver /\ ~(invokePc = "awaitRun" /\ SummarySucceeded)) =>
    /\ invokePc = "awaitRun"
    /\ pc = "loopTop"
    /\ historyToUse = history
    /\ conversationMessages = buildMessages(history)

\* what the code does guarantee: an empty summary, or a cancellation that lets
\* the stream end normally, keeps the caller's history and enters the loop
EmptyOrCancelledKeepsHistory ==
  (CompactionReturned /\ ~SummarySucceeded) =>
    /\ pc = "loopTop"
    /\ historyToUse = history
    /\ conversationMessages = buildMessages(history)

\* the provider's counts of all messages, added up
RECURSIVE ProviderSum(_, _)
ProviderSum(meta, msgs) ==
  IF msgs = <<>> THEN 0
  ELSE computeTokenLength(meta, Head(msgs)) + ProviderSum(meta, Tail(msgs))

\* ceil(textLength / 4) of all messages, added up
RECURSIVE EstimateSum(_)
EstimateSum(msgs) ==
  IF msgs = <<>> THEN 0
  ELSE Ceil(Len(TextOf(Head(msgs).content)), 4) + EstimateSum(Tail(msgs))

\* C25: computeTotalTokenCount returns the sum of the provider's per-message
\* counts when every count succeeds; when the counter fails on any message the
\* returned total is the sum over all messages of ceil(textLength / 4), with no
\* contribution from the counts obtained before the failure
C25_TotalIsSumOrEstimate ==
  Decided =>
    LET msgs == buildMessages(history)
    IN total = IF counted = Len(msgs) THEN ProviderSum(modelMetadata, msgs)
               ELSE EstimateSum(msgs)

\* what the code does guarantee: the counts obtained before the failure stay in
\* the total
EstimatePlusEarlierCounts ==
  Decided =>
    LET msgs == buildMessages(history)
    IN total = IF counted = Len(msgs) THEN ProviderSum(modelMetadata, msgs)
               ELSE ProviderSum(modelMetadata, SubSeq(msgs, 1, counted)) + EstimateSum(msgs)

\* ------------------------------------------------------------ provider adapter
\* C26: one adapter call issues at most two HTTP requests; a second one is
\* issued only when the first carried tools and was answered with a client
\* error, it carries no tools, and no request follows it whatever its status;
\* a 5xx status, a transport error or a cancellation causes no retry
C26_AtMostOneRetryWithoutTools ==
  /\ Len(outbound) <= 2
  /\ Len(outbound) = 2 =>
       /\ outbound[1].tools
       /\ outbound[1].statusCode \in 400..499
       /\ ~outbound[2].tools

\* the request with tools was answered with 400, the one without tools with 500:
\* the call has ended after two requests
C26_Witness ==
  /\ Len(outbound) = 2
  /\ outbound[1].tools
  /\ outbound[2].statusCode = 500
  /\ adapterPc = "ended"

\* the adapter call ended because of the status of its last response
RejectedByStatus ==
  /\ adapterPc = "ended"
  /\ outbound[Len(outbound)].statusCode \notin {0, 200}

\* C27: for every status other than success the request is rejected without a
\* stream event, with a message determined by status and vendor: 400 invalid
\* request or model name, 401 and 403 credentials, 404 model or local server not
\* found, 429 rate limited, 500..599 upstream or local server unavailable
C27_StatusDeterminesMessage ==
  RejectedByStatus =>
    LET statusCode == outbound[Len(outbound)].statusCode
        msg == streamError.msg
    IN /\ streamState = "rejected"
       /\ resultState = "rejected"
       /\ streamBuf = <<>>
       /\ emitted = 0
       /\ statusCode = 400 => msg = "Invalid request. Please check your model name"
       /\ statusCode \in {401, 403} => msg \in {"Invalid or missing API key", "Access denied"}
       /\ statusCode = 404 =>
            msg \in {"Model not found in Ollama", "Resource not found", "server is not running"}
       /\ statusCode = 429 => msg = "Rate limit exceeded"
       /\ statusCode \in 500..599 =>
            msg \in {"Ollama server is not responding", "service is temporarily unavailable",
                     "server is not running"}

\* what the code does guarantee: the rejection comes without a stream event,
\* and the adapters that use _getApiErrorMessage map the statuses it lists
ListedStatusesAreMapped ==
  RejectedByStatus =>
    LET statusCode == outbound[Len(outbound)].statusCode
        msg == streamError.msg
    IN /\ streamState = "rejected"
       /\ resultState = "rejected"
       /\ streamBuf = <<>>
       /\ emitted = 0
       /\ adapter \notin {"huggingface", "localhost"} =>
            /\ statusCode = 400 => msg = "Invalid request. Please check your model name"
            /\ statusCode \in {401, 403} =>
                 msg \in {"Invalid or missing API key", "Access denied"}
            /\ statusCode = 404 => msg \in {"Model not found in Ollama", "Resource not found"}
            /\ statusCode = 429 => msg = "Rate limit exceeded"
            /\ statusCode \in {500, 502, 503} =>
                 msg \in {"Ollama server is not responding",
                          "service is temporarily unavailable"}

\* the text a local model has produced holds the object of the injected
\* protocol once, and nothing else that is a piece of it
HoldsOneToolCall(text) ==
  \E i \in 1..(Len(text) - Len(ToolCallJson) + 1) :
    /\ SubSeq(text, i, i + Len(ToolCallJson) - 1) = ToolCallJson
    /\ \A k \in 1..Len(text) :
         k \notin i..(i + Len(ToolCallJson) - 1) =>
           \A x \in 1..Len(ToolCallJson) : text[k] # ToolCallJson[x]

\* a text event that carries a piece of the object
LeakedIn(parts) ==
  \E i \in 1..Len(parts) :
    /\ parts[i].type = "text"
    /\ \E k \in 1..Len(parts[i].value), x \in 1..Len(ToolCallJson) :
         parts[i].value[k] = ToolCallJson[x]

\* C28: with prompt-injected tools, whenever the model's text holds a tool-call
\* object of the injected protocol, wherever in the text and however split over
\* chunks, it becomes a tool_use event and no piece of it is emitted as text
C28_ToolCallJsonNeverText ==
  (/\ adapter \in LocalProviders
   /\ outbound # <<>>
   /\ outbound[1].injected
   /\ HoldsOneToolCall(Join(arrived))) =>
    /\ ~LeakedIn(streamBuf)
    /\ adapterPc = "ended" => \E i \in 1..Len(streamBuf) : streamBuf[i].type = "tool_use"

\* what the code does guarantee: an object that arrives in one chunk is
\* extracted and not shown
WholeObjectChunkExtracted ==
  (/\ adapter \in LocalProviders
   /\ outbound # <<>>
   /\ outbound[1].injected
   /\ HoldsOneToolCall(Join(arrived))
   /\ \E n \in 1..Len(arrived) : Includes(arrived[n], ToolCallJson)) =>
    /\ ~LeakedIn(streamBuf)
    /\ adapterPc = "ended" => \E i \in 1..Len(streamBuf) : streamBuf[i].type = "tool_use"

IsTextOrThinking(part) == part.type \in {"text", "thinking"}

\* a line on which an Anthropic or Google stream completes an event
Completes(ev) ==
  ev.type \in {"text", "thinking", "functionCall", "content_block_stop"}

\* every tool_use event so far was emitted at stream end, behind all text and
\* thinking events
ToolUsesLast ==
  \A i \in 1..Len(streamBuf) :
    streamBuf[i].type = "tool_use" =>
      /\ adapterPc = "ended"
      /\ \A j \in i..Len(streamBuf) : streamBuf[j].type = "tool_use"

RECURSIVE SoloRun(_)
SoloRun(r) ==
  CASE r.pc = "loopTop" -> SoloRun(LoopTop(r, r.iterationCount, MAX_ITERATIONS))
    [] r.pc = "awaitResponse" -> SoloRun(Received(r, r.iterationCount, MAX_ITERATIONS))
    [] r.pc = "tools" -> SoloRun(ToolDone(r))
    [] OTHER -> r

C31_CatalogFollowsRegistry ==
  \A k \in 1..Len(runs[1].catalogs) :
    runs[1].catalogs[k].tools =
      formatToolsForLLM(getAvailableTools(runs[1].catalogs[k].registered,
                                          runs[1].userSelectedTools))

\* what the run does: every request carries the tools read when run was called
CatalogIsTheOneOfRunStart ==
  \A k \in 1..Len(runs[1].catalogs) :
    runs[1].catalogs[k].tools = formatToolsForLLM(runs[1].allTools)


\* C32: after the operator has saved an accepted 'Max iterations per request'
\* value n, a request started afterwards performs at most n model requests, and
\* exactly n when the model keeps calling tools
C32_SavedLimitBoundsNextRequest ==
  (runs[1].pc = "returned" /\ runs[1].savedAtCall # 0) =>
    /\ runs[1].requests <= runs[1].savedAtCall
    /\ runs[1].script = KeepsCallingTools => runs[1].requests = runs[1].savedAtCall

\* what the run does: the bound is the one the UnifiedAgent was constructed with
BoundIsTheOneOfConstruction ==
  runs[1].pc = "returned" =>
    /\ runs[1].requests <= MAX_ITERATIONS
    /\ runs[1].script = KeepsCallingTools => runs[1].requests = MAX_ITERATIONS


\* occurrences of the key of call tc among the last REPEATED_TOOL_CALL_WINDOW keys
OccurrencesInWindow(tc) ==
  Cardinality({i \in 1..Len(recentToolKeys) : recentToolKeys[i] = ToolKey(tc)})

\* C33: the loop never executes a tool call whose key occurs 3 or more times among
\* the last 6 call keys, the call itself included: this holds for every call of
\* the round whose tools are being executed, not only for the first one
C33_NoCallOfRoundRepeated ==
  pc = "tools" =>
    \A j \in 1..Len(toolCalls) :
      OccurrencesInWindow(toolCalls[j]) < REPEATED_TOOL_CALL_THRESHOLD

\* what the loop guarantees: the first call of the round is not a repeated one
FirstCallOfRoundNotRepeated ==
  pc = "tools" => OccurrencesInWindow(toolCalls[1]) < REPEATED_TOOL_CALL_THRESHOLD


\* iteration k received a response without tool calls and without the marker
SilentIteration(k) == Len(iterLog[k].calls) = 0 /\ ~iterLog[k].marker

C35_NoSafetyTextAfterCancellation ==
  (cancelObserved /\ pc = "resolved") =>
    notes \cap {"maxIterations", "noResponse", "repeatedToolCall"} = {}

\* what holds: a run that left the loop at its condition because of the token
\* emits none of the three
CancelledAtLoopTopIsQuiet ==
  outcome = "cancelled" =>
    notes \cap {"maxIterations", "noResponse", "repeatedToolCall"} = {}


\* the messages of the conversation that carry tool results
ToolResultMessageCount(conv) ==
  Cardinality({i \in 1..Len(conv) : conv[i].content[1].type = "tool_result"})

\* C36: once cancellation was observed while a stream was consumed, the tool calls
\* collected from that stream are not invoked, and neither tool results nor a
\* nudge are appended to the conversation
C36_CancelledStreamOutputDiscarded ==
  [][cancelObserved =>
       /\ invoked' = invoked
       /\ NudgeCount(conversationMessages') = NudgeCount(conversationMessages)
       /\ ToolResultMessageCount(conversationMessages')
            = ToolResultMessageCount(conversationMessages)]_vars

\* what holds: the parts of the stream that arrive after the cancellation was
\* observed are not added to the text or to the tool calls of the iteration
NothingCollectedAfterCancelObserved ==
  [][(cancelObserved /\ pc \in {"awaitResult", "tools"}) =>
       (fullText' = fullText /\ toolCalls' = toolCalls)]_vars


\* C37: when every request is answered or fails and every tool invocation
\* returns or throws, an invocation of run comes to its end whatever the model
\* answers: the loop is left and run returns, or an await has thrown
C37_RunEventuallyReturns ==
  (runs[1].pc = "loopTop") ~> (runs[1].pc \in {"returned", "rejected"})

\* a run that was kept going by tool calls up to the iteration bound has returned
C37_Witness ==
  /\ runs[1].pc = "returned"
  /\ runs[1].outcome = "iterlimit"
  /\ runs[1].iterationCount = MAX_ITERATIONS
  /\ MAX_ITERATIONS >= 2
  /\ Len(runs[1].invoked) >= 2


\* iteration k received a response with the marker and at least one tool call
MarkerWithToolCalls(k) == iterLog[k].marker /\ Len(iterLog[k].calls) > 0

\* the calls of iteration k were all passed to invokeTool
CallsOfIterationInvoked(k) ==
  Cardinality({j \in 1..Len(invoked) : invoked[j].iter = k}) = Len(iterLog[k].calls)

\* the run has returned and its last response held the marker and tool calls
ReturnedAfterMarkerWithToolCalls ==
  pc = "resolved" /\ Len(iterLog) > 0 /\ MarkerWithToolCalls(Len(iterLog))

\* C38 as stated: a response with the marker and tool calls does not end the run,
\* its calls are executed and another request is issued, unless the repetition
\* guard stops the run; Done is reached only with the marker and no tool call
C38_MarkerWithToolCallsContinues ==
  /\ outcome = "done" =>
       (iterLog[Len(iterLog)].marker /\ Len(iterLog[Len(iterLog)].calls) = 0)
  /\ ReturnedAfterMarkerWithToolCalls => outcome = "repetition"

\* C38, amended: the run is then ended by the repetition guard, the iteration
\* bound or cancellation, never as Done; unless the repetition guard stopped it,
\* all calls of that response were passed to invokeTool
C38_MarkerWithToolCallsIsNotDone ==
  /\ outcome = "done" =>
       (iterLog[Len(iterLog)].marker /\ Len(iterLog[Len(iterLog)].calls) = 0)
  /\ ReturnedAfterMarkerWithToolCalls =>
       /\ outcome \in {"repetition", "iterlimit", "cancelled"}
       /\ outcome # "repetition" => CallsOfIterationInvoked(Len(iterLog))
  /\ \A k \in 1..(Len(iterLog) - 1) :
       MarkerWithToolCalls(k) => (CallsOfIterationInvoked(k) /\ requests > k)

\* the first response held the marker and a tool call: the call was invoked and a
\* second request was issued
C38_Witness ==
  /\ Len(iterLog) >= 1
  /\ MarkerWithToolCalls(1)
  /\ CallsOfIterationInvoked(1)
  /\ requests = 2
  /\ outcome = "none"


\* the adapters of llama.cpp (_callLocalModel) and of a localhost server
HoldingAdapters == {"huggingface", "localhost"}

\* the text still held in accumulatedContent was emitted as a text event
HeldTextEmitted ==
  \/ Trim(accumulatedContent) = <<>>
  \/ \E i \in 1..Len(streamBuf) : streamBuf[i] = TextPart(accumulatedContent)

\* C39: for the llama.cpp and localhost adapters, by stream end every content
\* delta received was emitted as text or consumed as an extracted tool call:
\* text that was held back is flushed as a text event at stream end
C39_HeldBackTextFlushedAtEnd ==
  (adapter \in HoldingAdapters /\ adapterPc = "ended") => HeldTextEmitted

\* what the code does guarantee: the onEnd of _callOllamaModel emits what is
\* left, white space apart
OllamaFlushesAtEnd ==
  (adapter = "ollama" /\ adapterPc = "ended") => HeldTextEmitted


\* C40: every 'data:' line of a streaming body is parsed exactly once however
\* the body is split into chunks, the last line of a body that ends without a
\* trailing newline included: when the stream has ended no line is left unparsed
\* in the buffer
C40_EveryLineParsedByStreamEnd ==
  adapterPc = "ended" => buffer = <<>>

\* what the code does guarantee: a line is parsed when its newline arrives, so
\* while the stream is open at most the line being received is pending
OnlyUnterminatedLinePending ==
  /\ Len(buffer) <= 1
  /\ Len(arrived) + Len(buffer) <= MaxLines

====
